---- MODULE Spec2Model ----
(***************************************************************************)
(* A model of the battle-statistic and damage-calculation engine of        *)
(* pokeGPT (src/unnamed/part_003, src/play_pokemon.js).                     *)
(*                                                                         *)
(* Conventions                                                             *)
(*   - A string the program parses character by character (a generation    *)
(*     range expression, a generation name) is a sequence of one-character *)
(*     strings.  A string the program only compares or uses as a property  *)
(*     key (a type name, the toString() of a Type or Weather) is a TLA+    *)
(*     string.                                                             *)
(*   - A JavaScript number that may be fractional is an exact rational     *)
(*     <<n, d>> in lowest terms with d > 0.                                *)
(*   - The integers Gen.match compares are [nan |-> BOOLEAN, v |-> Int].   *)
(*   - A returned value is a tuple of integers, see Ok below.              *)
(***************************************************************************)
EXTENDS Integers, Sequences, FiniteSets, TLC

VARIABLES
  pc,        \* index of the next top-level statement of the module to run
  static,    \* the global counter __static__
  props,     \* class name -> sequence of <<property name, instance id>>
  frozen,    \* the classes on which Object.freeze has run
  name,      \* instance id -> the closure variable _name (<<>> for null, or <<string>>)
  typeKeys,  \* Type instance id -> what each computed key [Type.c] of its
             \* table literals evaluated to when its constructor ran
  weatherKeys, \* Weather instance id -> the same for the keys [Type.c] and
             \* [Weather.c] of its literal _powerModWeather
  call,      \* the last call made: a record with the function and arguments
  ret,       \* what that call returned or threw
  ncalls     \* number of calls made since the module was loaded

vars == <<pc, static, props, frozen, name, typeKeys, weatherKeys, call, ret, ncalls>>

NoCall == [op |-> "none"]

\* A value a call returns is a tuple of integers: <<>> is undefined, <<1>> is
\* true, <<0>> is false and <<n, d>> is the number n/d.
JSUndefined == <<>>
JSTrue == <<1>>
JSFalse == <<0>>
Bool(b) == IF b THEN JSTrue ELSE JSFalse

\* the outcome of a call: a returned value or a thrown error
Ok(v) == [thrown |-> FALSE, v |-> v, err |-> ""]
Thrown(e) == [thrown |-> TRUE, v |-> JSUndefined, err |-> e]

-----------------------------------------------------------------------------
(* Bounds of the exploration                                               *)

\* number of calls explored after the module has been loaded
MaxCalls == 2

-----------------------------------------------------------------------------
(* Exact rational arithmetic for JavaScript's fractional numbers           *)

RECURSIVE GCD(_, _)
GCD(a, b) == IF b = 0 THEN a ELSE GCD(b, a % b)

Abs(x) == IF x < 0 THEN -x ELSE x

Rat(n, d) ==
  LET g == GCD(Abs(n), Abs(d))
      s == IF d < 0 THEN -1 ELSE 1
  IN  <<(s * n) \div g, (s * d) \div g>>

Zero == <<0, 1>>
Half == <<1, 2>>
One == <<1, 1>>
OneAndHalf == <<3, 2>>
Two == <<2, 1>>
Three == <<3, 1>>

RMul(x, y) == Rat(x[1] * y[1], x[2] * y[2])
RDiv(x, y) == Rat(x[1] * y[2], x[2] * y[1])
RAdd(x, y) == Rat(x[1] * y[2] + y[1] * x[2], x[2] * y[2])
RLess(x, y) == x[1] * y[2] < y[1] * x[2]
RInt(k) == <<k, 1>>

-----------------------------------------------------------------------------
(* Numbers of Gen.match: an integer or NaN                                 *)

Num(k) == [nan |-> FALSE, v |-> k]
NaN == [nan |-> TRUE, v |-> 0]

\* a >= b, a <= b, a === b on JavaScript numbers: false when either is NaN
NumGE(a, b) == ~a.nan /\ ~b.nan /\ a.v >= b.v
NumLE(a, b) == ~a.nan /\ ~b.nan /\ a.v <= b.v
NumEQ(a, b) == ~a.nan /\ ~b.nan /\ a.v = b.v
\* Math.min, Math.max: NaN when either argument is NaN
MathMin(a, b) == IF a.nan \/ b.nan THEN NaN ELSE IF a.v <= b.v THEN a ELSE b
MathMax(a, b) == IF a.nan \/ b.nan THEN NaN ELSE IF a.v >= b.v THEN a ELSE b
NumAdd(a, b) == IF a.nan \/ b.nan THEN NaN ELSE Num(a.v + b.v)
NumSub(a, b) == IF a.nan \/ b.nan THEN NaN ELSE Num(a.v - b.v)

-----------------------------------------------------------------------------
(* Character strings                                                       *)

Digits == {"0", "1", "2", "3", "4", "5", "6", "7", "8", "9"}

DigitVal(c) ==
  CASE c = "0" -> 0 [] c = "1" -> 1 [] c = "2" -> 2 [] c = "3" -> 3
    [] c = "4" -> 4 [] c = "5" -> 5 [] c = "6" -> 6 [] c = "7" -> 7
    [] c = "8" -> 8 [] c = "9" -> 9

Sub(s, i, j) == SubSeq(s, i, j)

AllIn(s, S) == \A i \in 1..Len(s) : s[i] \in S

\* s consists of k copies of the character c
IsRep(s, c) == AllIn(s, {c})

\* \d+
IsDigits(s) == Len(s) >= 1 /\ AllIn(s, Digits)

\* \s*
IsSpaces(s) == AllIn(s, {" "})

RECURSIVE DecimalValue(_)
DecimalValue(s) ==
  IF s = <<>> THEN 0
  ELSE 10 * DecimalValue(Sub(s, 1, Len(s) - 1)) + DigitVal(s[Len(s)])

\* Number(str) for the string whose text without the surrounding spaces is t
numberOfTrimmed(t) ==
  IF t = <<>> THEN Num(0)
  ELSE IF IsDigits(t) THEN Num(DecimalValue(t))
  ELSE IF t[1] = "+" /\ IsDigits(Tail(t)) THEN Num(DecimalValue(Tail(t)))
  ELSE IF t[1] = "-" /\ IsDigits(Tail(t)) THEN Num(0 - DecimalValue(Tail(t)))
  ELSE NaN

\* positions of the first and the last character of s that is no space
FirstNonSpace(s) ==
  IF \E i \in 1..Len(s) : s[i] # " "
  THEN CHOOSE i \in 1..Len(s) : s[i] # " " /\ \A j \in 1..(i-1) : s[j] = " "
  ELSE Len(s) + 1
LastNonSpace(s) ==
  IF \E i \in 1..Len(s) : s[i] # " "
  THEN CHOOSE i \in 1..Len(s) : s[i] # " " /\ \A j \in (i+1)..Len(s) : s[j] = " "
  ELSE Len(s)

\* Number(str) for a string over digits, spaces, signs and letters
NumberOf(s) == numberOfTrimmed(Sub(s, FirstNonSpace(s), LastNonSpace(s)))

-----------------------------------------------------------------------------
(* Gen: romanToNumber                                                      *)

\* romanNumeralMap[c] for a single character c (undefined when absent)
romanNumeralMap(c) ==
  CASE c = "I" -> Num(1)
    [] c = "V" -> Num(5)
    [] c = "X" -> Num(10)
    [] c = "L" -> Num(50)
    [] c = "C" -> Num(100)
    [] OTHER -> NaN

\* the texts matched by (IX|IV|V?I{0,3})
IsUnits(s) ==
  \/ s = <<"I", "X">>
  \/ s = <<"I", "V">>
  \/ /\ Len(s) <= 3
     /\ IsRep(s, "I")
  \/ /\ Len(s) >= 1
     /\ Len(s) <= 4
     /\ s[1] = "V"
     /\ IsRep(Tail(s), "I")

\* the texts matched by (XC|XL|L?X{0,3})
IsTens(s) ==
  \/ s = <<"X", "C">>
  \/ s = <<"X", "L">>
  \/ /\ Len(s) <= 3
     /\ IsRep(s, "X")
  \/ /\ Len(s) >= 1
     /\ Len(s) <= 4
     /\ s[1] = "L"
     /\ IsRep(Tail(s), "X")

\* the texts matched by (CM|CD|D?C{0,3})
IsHundreds(s) ==
  \/ s = <<"C", "M">>
  \/ s = <<"C", "D">>
  \/ /\ Len(s) <= 3
     /\ IsRep(s, "C")
  \/ /\ Len(s) >= 1
     /\ Len(s) <= 4
     /\ s[1] = "D"
     /\ IsRep(Tail(s), "C")

\* /^M{0,10}(CM|CD|D?C{0,3})(XC|XL|L?X{0,3})(IX|IV|V?I{0,3})$/.test(str)
isValidRomanNumeral(s) ==
  \E i \in 0..Len(s) : \E j \in i..Len(s) : \E k \in j..Len(s) :
    /\ i <= 10
    /\ IsRep(Sub(s, 1, i), "M")
    /\ IsHundreds(Sub(s, i + 1, j))
    /\ IsTens(Sub(s, j + 1, k))
    /\ IsUnits(Sub(s, k + 1, Len(s)))

\* the loop of romanToNumber from index i with the running result
RECURSIVE romanLoop(_, _, _)
romanLoop(s, i, result) ==
  IF i > Len(s) THEN result
  ELSE LET cur == romanNumeralMap(s[i])
           \* romanNumeralMap[str[i+1]] is undefined past the end
           nxt == IF i + 1 <= Len(s) THEN romanNumeralMap(s[i + 1]) ELSE NaN
       IN  IF ~cur.nan /\ ~nxt.nan /\ cur.v < nxt.v
           THEN romanLoop(s, i + 1, NumSub(result, cur))
           ELSE romanLoop(s, i + 1, NumAdd(result, cur))

\* else if (!isNaN(Number(str))) return Number(str); return NaN
NumberOrNaN(n) == IF ~n.nan THEN n ELSE NaN

romanToNumber(s) ==
  IF isValidRomanNumeral(s) THEN romanLoop(s, 1, Num(0))
  ELSE NumberOrNaN(NumberOf(s))

-----------------------------------------------------------------------------
(* Gen: the regular expressions of Gen.match.  A match is the array that   *)
(* String.prototype.match returns: element 1 is the whole match (index 0   *)
(* in JavaScript), element k+1 is capture group k; NoMatch stands for null.*)

NoMatch == <<>>

\* the value of a capture group that did not take part in the match
UndefinedGroup == <<"undefined">>

\* the texts matched by _rnrStr = '(C|XC|L|XL|X{0,3}(IX|IV|V?I{0,3})|IX|IV|V|I)'
IsRnr(t) ==
  \/ t \in {<<"C">>, <<"X", "C">>, <<"L">>, <<"X", "L">>}
  \/ \E k \in 0..3 :
       /\ k <= Len(t)
       /\ IsRep(Sub(t, 1, k), "X")
       /\ IsUnits(Sub(t, k + 1, Len(t)))

\* the inner group (IX|IV|V?I{0,3}) of _rnrStr: what follows the leading X's
\* when the alternative X{0,3}(...) matched, undefined for C, XC, L and XL
RnrInner(t) ==
  IF t \in {<<"C">>, <<"X", "C">>, <<"L">>, <<"X", "L">>} THEN UndefinedGroup
  ELSE LET k == CHOOSE k \in 0..3 :
                  /\ k <= Len(t)
                  /\ IsRep(Sub(t, 1, k), "X")
                  /\ (k = Len(t) \/ t[k + 1] # "X" \/ k = 3)
                  /\ IsUnits(Sub(t, k + 1, Len(t)))
       IN  Sub(t, k + 1, Len(t))

\* the positions <<i, j, k>> that split s as  first \s* - \s* second, where
\* first = s[1..i], the dash is s[j] and second = s[k..Len(s)]; <<>> when s
\* holds no dash.  No numeral holds a dash or a space, so the dash is the
\* first one of s and the \s* runs are the spaces around it.
RangeSplit(s) ==
  LET dashes == {j \in 1..Len(s) : s[j] = "-"}
  IN  IF dashes = {} THEN <<>>
      ELSE LET j == CHOOSE x \in dashes : \A y \in dashes : x <= y
               i == IF \E x \in 1..(j - 1) : s[x] # " "
                    THEN CHOOSE x \in 1..(j - 1) : s[x] # " " /\ \A y \in (x + 1)..(j - 1) : s[y] = " "
                    ELSE 0
               k == IF \E x \in (j + 1)..Len(s) : s[x] # " "
                    THEN CHOOSE x \in (j + 1)..Len(s) : s[x] # " " /\ \A y \in (j + 1)..(x - 1) : s[y] = " "
                    ELSE Len(s) + 1
           IN  <<i, j, k>>

\* the two numerals of the split sp
SplitFirst(s, sp) == Sub(s, 1, sp[1])
SplitSecond(s, sp) == Sub(s, sp[3], Len(s))

\* the match array of the Arabic range pattern for the numerals a and b
ArabicRangeOf(s, a, b) ==
  IF IsDigits(a) /\ IsDigits(b) THEN <<s, a, b>> ELSE NoMatch

ArabicRangeAt(s, sp) ==
  IF sp = <<>> THEN NoMatch ELSE ArabicRangeOf(s, SplitFirst(s, sp), SplitSecond(s, sp))

\* genRange.match(/^(\d+)\s*-\s*(\d+)$/)
MatchArabicRange(s) == ArabicRangeAt(s, RangeSplit(s))

\* the match array of the Roman range pattern for the numerals a and b: the
\* pattern has six groups, because _rnrStr brings two groups of its own
RomanRangeOf(s, a, b) ==
  IF IsRnr(a) /\ IsRnr(b)
  THEN <<s, a, a, RnrInner(a), b, b, RnrInner(b)>>
  ELSE NoMatch

RomanRangeAt(s, sp) ==
  IF sp = <<>> THEN NoMatch ELSE RomanRangeOf(s, SplitFirst(s, sp), SplitSecond(s, sp))

\* genRange.match(new RegExp(`^(${_rnrStr})\\s*-\\s*(${_rnrStr})$`))
MatchRomanRange(s) == RomanRangeAt(s, RangeSplit(s))

\* genRange.match(/^(\d+)\+$/)
MatchArabicMin(s) ==
  IF Len(s) >= 2 /\ s[Len(s)] = "+" /\ IsDigits(Sub(s, 1, Len(s) - 1))
  THEN <<s, Sub(s, 1, Len(s) - 1)>>
  ELSE NoMatch

\* the match array of a Roman numeral a followed by the text that makes s
RomanSingleOf(s, a) == <<s, a, a, RnrInner(a)>>

\* genRange.match(new RegExp(`^(${_rnrStr})\\+$`))
MatchRomanMin(s) ==
  IF Len(s) >= 1 /\ s[Len(s)] = "+" /\ IsRnr(Sub(s, 1, Len(s) - 1))
  THEN RomanSingleOf(s, Sub(s, 1, Len(s) - 1))
  ELSE NoMatch

\* genRange.match(/^(\d+)$/)
MatchArabicExact(s) == IF IsDigits(s) THEN <<s, s>> ELSE NoMatch

\* genRange.match(new RegExp(`^(${_rnrStr})$`))
MatchRomanExact(s) == IF IsRnr(s) THEN <<s, s, s, RnrInner(s)>> ELSE NoMatch

\* (match = x) || (match = y)
OrMatch(x, y) == IF x # NoMatch THEN x ELSE y

\* const [_, minGenStr, maxGenStr] = match: the k-th name after _ takes the
\* array element of JavaScript index k
Destructure(m, k) == IF k + 1 <= Len(m) THEN m[k + 1] ELSE UndefinedGroup

\* return thisGen >= minGen && thisGen <= maxGen, with
\* [minGen, maxGen] = [Math.min(g1, g2), Math.max(g1, g2)]
matchBounded(thisGen, g1, g2) ==
  Ok(Bool(NumGE(thisGen, MathMin(g1, g2)) /\ NumLE(thisGen, MathMax(g1, g2))))

\* the branches of match on what the three pairs of patterns matched
matchOn(thisGen, m1, m2, m3) ==
  IF m1 # NoMatch
  THEN matchBounded(thisGen, romanToNumber(Destructure(m1, 1)), romanToNumber(Destructure(m1, 2)))
  ELSE IF m2 # NoMatch
  THEN Ok(Bool(NumGE(thisGen, romanToNumber(Destructure(m2, 1)))))
  ELSE IF m3 # NoMatch
  THEN Ok(Bool(NumEQ(thisGen, romanToNumber(Destructure(m3, 1)))))
  ELSE Thrown("TypeError")

\* this.match(genRange) of the generation whose name is thisName
match(thisName, genRange) ==
  matchOn(romanToNumber(thisName),
          OrMatch(MatchArabicRange(genRange), MatchRomanRange(genRange)),
          OrMatch(MatchArabicMin(genRange), MatchRomanMin(genRange)),
          OrMatch(MatchArabicExact(genRange), MatchRomanExact(genRange)))

-----------------------------------------------------------------------------
(* The reference tables as the source writes them: a sequence of rows      *)
(* <<outer constant, << <<inner constant, value>>, ... >> >> in the order  *)
(* of the object literal.                                                  *)

_genIEff ==
  << <<"NORMAL", << <<"FIGHTING", Two>>, <<"GHOST", Zero>> >> >>,
     <<"FIRE", << <<"FIRE", Half>>, <<"WATER", Two>>, <<"GRASS", Half>>, <<"GROUND", Two>>, <<"BUG", Half>>, <<"ROCK", Two>> >> >>,
     <<"WATER", << <<"FIRE", Half>>, <<"WATER", Half>>, <<"ELECTRIC", Two>>, <<"GRASS", Two>>, <<"ICE", Half>> >> >>,
     <<"ELECTRIC", << <<"ELECTRIC", Half>>, <<"GROUND", Two>>, <<"FLYING", Half>> >> >>,
     <<"GRASS", << <<"FIRE", Two>>, <<"WATER", Half>>, <<"ELECTRIC", Half>>, <<"GRASS", Half>>, <<"ICE", Two>>, <<"POISON", Two>>, <<"GROUND", Half>>, <<"FLYING", Two>>, <<"BUG", Two>> >> >>,
     <<"ICE", << <<"FIRE", Two>>, <<"ICE", Half>>, <<"FIGHTING", Two>>, <<"ROCK", Two>> >> >>,
     <<"FIGHTING", << <<"FLYING", Two>>, <<"PSYCHIC", Two>>, <<"BUG", Half>>, <<"ROCK", Half>> >> >>,
     <<"POISON", << <<"GRASS", Half>>, <<"FIGHTING", Half>>, <<"POISON", Half>>, <<"GROUND", Two>>, <<"PSYCHIC", Two>>, <<"BUG", Two>> >> >>,
     <<"GROUND", << <<"WATER", Two>>, <<"ELECTRIC", Zero>>, <<"GRASS", Two>>, <<"ICE", Two>>, <<"POISON", Half>>, <<"ROCK", Half>> >> >>,
     <<"FLYING", << <<"ELECTRIC", Two>>, <<"GRASS", Half>>, <<"ICE", Two>>, <<"FIGHTING", Half>>, <<"GROUND", Zero>>, <<"BUG", Half>>, <<"ROCK", Two>> >> >>,
     <<"PSYCHIC", << <<"FIGHTING", Half>>, <<"PSYCHIC", Half>>, <<"BUG", Two>>, <<"GHOST", Zero>> >> >>,
     <<"BUG", << <<"FIRE", Two>>, <<"GRASS", Half>>, <<"FIGHTING", Half>>, <<"POISON", Two>>, <<"GROUND", Half>>, <<"FLYING", Two>>, <<"ROCK", Two>> >> >>,
     <<"ROCK", << <<"NORMAL", Half>>, <<"FIRE", Half>>, <<"WATER", Half>>, <<"GRASS", Two>>, <<"FIGHTING", Two>>, <<"POISON", Half>>, <<"GROUND", Two>>, <<"FLYING", Half>> >> >>,
     <<"GHOST", << <<"NORMAL", Zero>>, <<"FIGHTING", Zero>>, <<"POISON", Half>>, <<"BUG", Half>>, <<"GHOST", Two>> >> >>,
     <<"DRAGON", << <<"FIRE", Half>>, <<"WATER", Half>>, <<"ELECTRIC", Half>>, <<"GRASS", Half>>, <<"ICE", Two>>, <<"DRAGON", Two>> >> >> >>

_genIItoVEff ==
  << <<"BUG", << <<"FIGHTING", Half>>, <<"FLYING", Two>>, <<"GROUND", Half>>, <<"ROCK", Two>>, <<"FIRE", Two>>, <<"GRASS", Half>> >> >>,
     <<"DARK", << <<"FIGHTING", Two>>, <<"PSYCHIC", Zero>>, <<"BUG", Two>>, <<"GHOST", Half>>, <<"DARK", Half>> >> >>,
     <<"DRAGON", << <<"FIRE", Half>>, <<"WATER", Half>>, <<"ELECTRIC", Half>>, <<"GRASS", Half>>, <<"ICE", Two>>, <<"DRAGON", Two>> >> >>,
     <<"ELECTRIC", << <<"FLYING", Half>>, <<"GROUND", Two>>, <<"ELECTRIC", Half>>, <<"DRAGON", Half>>, <<"STEEL", Half>> >> >>,
     <<"FIGHTING", << <<"FLYING", Two>>, <<"ROCK", Half>>, <<"BUG", Half>>, <<"PSYCHIC", Two>>, <<"DARK", Half>> >> >>,
     <<"FIRE", << <<"ROCK", Two>>, <<"BUG", Half>>, <<"STEEL", Half>>, <<"FIRE", Half>>, <<"WATER", Two>>, <<"GRASS", Half>>, <<"ICE", Half>>, <<"DRAGON", Half>>, <<"GROUND", Two>> >> >>,
     <<"FLYING", << <<"FIGHTING", Half>>, <<"ROCK", Two>>, <<"BUG", Half>>, <<"GRASS", Half>>, <<"ELECTRIC", Two>>, <<"ICE", Two>>, <<"GROUND", Zero>> >> >>,
     <<"DELTA_FLYING", << <<"FIGHTING", Half>>, <<"ROCK", One>>, <<"BUG", Half>>, <<"GRASS", Half>>, <<"ELECTRIC", One>>, <<"ICE", One>>, <<"GROUND", Zero>> >> >>,
     <<"GHOST", << <<"NORMAL", Zero>>, <<"FIGHTING", Zero>>, <<"POISON", Half>>, <<"BUG", Half>>, <<"GHOST", Two>>, <<"DARK", Two>> >> >>,
     <<"GRASS", << <<"FLYING", Two>>, <<"POISON", Two>>, <<"GROUND", Half>>, <<"BUG", Two>>, <<"FIRE", Two>>, <<"GRASS", Half>>, <<"WATER", Half>>, <<"ELECTRIC", Half>>, <<"ICE", Two>> >> >>,
     <<"GROUND", << <<"POISON", Half>>, <<"ROCK", Two>>, <<"WATER", Two>>, <<"GRASS", Half>>, <<"ELECTRIC", Zero>>, <<"ICE", Two>> >> >>,
     <<"ICE", << <<"STEEL", Two>>, <<"FIRE", Two>>, <<"ICE", Half>>, <<"ROCK", Two>>, <<"FIGHTING", Two>> >> >>,
     <<"NORMAL", << <<"FIGHTING", Two>>, <<"GHOST", Zero>> >> >>,
     <<"POISON", << <<"FIGHTING", Half>>, <<"POISON", Half>>, <<"GROUND", Two>>, <<"BUG", Half>>, <<"GRASS", Half>>, <<"PSYCHIC", Two>> >> >>,
     <<"PSYCHIC", << <<"FIGHTING", Half>>, <<"PSYCHIC", Half>>, <<"DARK", Two>>, <<"GHOST", Two>>, <<"BUG", Two>> >> >>,
     <<"ROCK", << <<"NORMAL", Half>>, <<"FIGHTING", Two>>, <<"FLYING", Half>>, <<"POISON", Half>>, <<"GROUND", Two>>, <<"STEEL", Two>>, <<"FIRE", Half>>, <<"WATER", Two>>, <<"GRASS", Two>> >> >>,
     <<"STEEL", << <<"NORMAL", Half>>, <<"FIGHTING", Two>>, <<"FLYING", Half>>, <<"ROCK", Half>>, <<"BUG", Half>>, <<"GHOST", Half>>, <<"STEEL", Half>>, <<"FIRE", Two>>, <<"GRASS", Half>>, <<"ICE", Half>>, <<"POISON", Zero>>, <<"GROUND", Two>>, <<"PSYCHIC", Half>>, <<"DRAGON", Half>>, <<"DARK", Half>> >> >>,
     <<"WATER", << <<"FIRE", Half>>, <<"WATER", Half>>, <<"GRASS", Two>>, <<"ELECTRIC", Two>>, <<"ICE", Half>>, <<"STEEL", Half>> >> >> >>

_genVIEff ==
  << <<"BUG", << <<"FIGHTING", Half>>, <<"FLYING", Two>>, <<"GROUND", Half>>, <<"ROCK", Two>>, <<"FIRE", Two>>, <<"GRASS", Half>> >> >>,
     <<"DARK", << <<"FIGHTING", Two>>, <<"PSYCHIC", Zero>>, <<"BUG", Two>>, <<"GHOST", Half>>, <<"DARK", Half>>, <<"FAIRY", Two>> >> >>,
     <<"DRAGON", << <<"FIRE", Half>>, <<"WATER", Half>>, <<"ELECTRIC", Half>>, <<"GRASS", Half>>, <<"ICE", Two>>, <<"DRAGON", Two>>, <<"FAIRY", Two>> >> >>,
     <<"ELECTRIC", << <<"FLYING", Half>>, <<"GROUND", Two>>, <<"ELECTRIC", Half>>, <<"DRAGON", Half>>, <<"STEEL", Half>> >> >>,
     <<"FAIRY", << <<"FIGHTING", Half>>, <<"POISON", Two>>, <<"BUG", Half>>, <<"DRAGON", Zero>>, <<"DARK", Half>>, <<"STEEL", Two>> >> >>,
     <<"FIGHTING", << <<"FLYING", Two>>, <<"ROCK", Half>>, <<"BUG", Half>>, <<"PSYCHIC", Two>>, <<"DARK", Half>>, <<"FAIRY", Two>> >> >>,
     <<"FIRE", << <<"ROCK", Two>>, <<"BUG", Half>>, <<"STEEL", Half>>, <<"FIRE", Half>>, <<"WATER", Two>>, <<"GRASS", Half>>, <<"ICE", Half>>, <<"DRAGON", Half>>, <<"GROUND", Two>>, <<"FAIRY", Half>> >> >>,
     <<"FLYING", << <<"FIGHTING", Half>>, <<"ROCK", Two>>, <<"BUG", Half>>, <<"GRASS", Half>>, <<"ELECTRIC", Two>>, <<"ICE", Two>>, <<"GROUND", Zero>> >> >>,
     <<"DELTA_FLYING", << <<"FIGHTING", Half>>, <<"ROCK", One>>, <<"BUG", Half>>, <<"GRASS", Half>>, <<"ELECTRIC", One>>, <<"ICE", One>>, <<"GROUND", Zero>> >> >>,
     <<"GHOST", << <<"NORMAL", Zero>>, <<"FIGHTING", Zero>>, <<"POISON", Half>>, <<"BUG", Half>>, <<"GHOST", Two>>, <<"DARK", Two>> >> >>,
     <<"GRASS", << <<"FLYING", Two>>, <<"POISON", Two>>, <<"GROUND", Half>>, <<"BUG", Two>>, <<"FIRE", Two>>, <<"GRASS", Half>>, <<"WATER", Half>>, <<"ELECTRIC", Half>>, <<"ICE", Two>> >> >>,
     <<"GROUND", << <<"POISON", Half>>, <<"ROCK", Two>>, <<"WATER", Two>>, <<"GRASS", Half>>, <<"ELECTRIC", Zero>>, <<"ICE", Two>> >> >>,
     <<"ICE", << <<"STEEL", Two>>, <<"FIRE", Two>>, <<"ICE", Half>>, <<"ROCK", Two>>, <<"FIGHTING", Two>> >> >>,
     <<"NORMAL", << <<"FIGHTING", Two>>, <<"GHOST", Zero>> >> >>,
     <<"POISON", << <<"FIGHTING", Half>>, <<"POISON", Half>>, <<"GROUND", Two>>, <<"BUG", Half>>, <<"GRASS", Half>>, <<"FAIRY", Half>>, <<"PSYCHIC", Two>> >> >>,
     <<"PSYCHIC", << <<"FIGHTING", Half>>, <<"PSYCHIC", Half>>, <<"DARK", Two>>, <<"GHOST", Two>>, <<"BUG", Two>> >> >>,
     <<"ROCK", << <<"NORMAL", Half>>, <<"FIGHTING", Two>>, <<"FLYING", Half>>, <<"POISON", Half>>, <<"GROUND", Two>>, <<"STEEL", Two>>, <<"FIRE", Half>>, <<"WATER", Two>>, <<"GRASS", Two>> >> >>,
     <<"STEEL", << <<"NORMAL", Half>>, <<"FIGHTING", Two>>, <<"FLYING", Half>>, <<"ROCK", Half>>, <<"BUG", Half>>, <<"STEEL", Half>>, <<"FIRE", Two>>, <<"GRASS", Half>>, <<"ICE", Half>>, <<"FAIRY", Half>>, <<"POISON", Zero>>, <<"GROUND", Two>>, <<"PSYCHIC", Half>>, <<"DRAGON", Half>> >> >>,
     <<"WATER", << <<"FIRE", Half>>, <<"WATER", Half>>, <<"GRASS", Two>>, <<"ELECTRIC", Two>>, <<"ICE", Half>>, <<"STEEL", Half>> >> >> >>

_powerModWeather ==
  << <<"FIRE", << <<"HARSH_SUN", OneAndHalf>>, <<"EXTREMELY_HARSH_SUN", OneAndHalf>>, <<"RAIN", Half>>, <<"HEAVY_RAIN", Zero>> >> >>,
     <<"WATER", << <<"HARSH_SUN", Half>>, <<"EXTREMELY_HARSH_SUN", Zero>>, <<"RAIN", OneAndHalf>>, <<"HEAVY_RAIN", OneAndHalf>> >> >> >>

effectiveness ==
  << <<"bug", << <<"fighting", Half>>, <<"flying", Two>>, <<"ground", Half>>, <<"rock", Two>>, <<"fire", Two>>, <<"grass", Half>> >> >>,
     <<"dark", << <<"fighting", Two>>, <<"psychic", Zero>>, <<"bug", Two>>, <<"ghost", Half>>, <<"dark", Half>>, <<"fairy", Two>> >> >>,
     <<"dragon", << <<"fire", Half>>, <<"water", Half>>, <<"electric", Half>>, <<"grass", Half>>, <<"ice", Two>>, <<"dragon", Two>>, <<"fairy", Two>> >> >>,
     <<"electric", << <<"flying", Half>>, <<"ground", Two>>, <<"electric", Half>>, <<"dragon", Half>>, <<"steel", Half>> >> >>,
     <<"fairy", << <<"fighting", Half>>, <<"poison", Two>>, <<"bug", Half>>, <<"dragon", Zero>>, <<"dark", Half>>, <<"steel", Two>> >> >>,
     <<"fighting", << <<"flying", Two>>, <<"rock", Half>>, <<"bug", Half>>, <<"psychic", Two>>, <<"dark", Half>>, <<"fairy", Two>> >> >>,
     <<"fire", << <<"rock", Two>>, <<"bug", Half>>, <<"steel", Half>>, <<"fire", Half>>, <<"water", Two>>, <<"grass", Half>>, <<"ice", Half>>, <<"dragon", Half>>, <<"ground", Two>>, <<"fairy", Half>> >> >>,
     <<"flying", << <<"fighting", Half>>, <<"rock", Two>>, <<"bug", Half>>, <<"grass", Half>>, <<"electric", Two>>, <<"ice", Two>>, <<"ground", Zero>> >> >>,
     <<"ghost", << <<"normal", Zero>>, <<"fighting", Zero>>, <<"poison", Half>>, <<"bug", Half>>, <<"ghost", Two>>, <<"dark", Two>> >> >>,
     <<"grass", << <<"flying", Two>>, <<"poison", Two>>, <<"ground", Half>>, <<"bug", Two>>, <<"fire", Two>>, <<"grass", Half>>, <<"water", Half>>, <<"electric", Half>>, <<"ice", Two>> >> >>,
     <<"ground", << <<"poison", Half>>, <<"rock", Two>>, <<"water", Two>>, <<"grass", Half>>, <<"electric", Zero>>, <<"ice", Two>> >> >>,
     <<"ice", << <<"steel", Two>>, <<"fire", Two>>, <<"ice", Half>>, <<"rock", Two>>, <<"fighting", Two>> >> >>,
     <<"normal", << <<"fighting", Two>>, <<"ghost", Zero>> >> >>,
     <<"poison", << <<"fighting", Half>>, <<"poison", Half>>, <<"ground", Two>>, <<"bug", Half>>, <<"grass", Half>>, <<"fairy", Half>>, <<"psychic", Two>> >> >>,
     <<"psychic", << <<"fighting", Half>>, <<"psychic", Half>>, <<"dark", Two>>, <<"ghost", Two>>, <<"bug", Two>> >> >>,
     <<"rock", << <<"normal", Half>>, <<"fighting", Two>>, <<"flying", Half>>, <<"poison", Half>>, <<"ground", Two>>, <<"steel", Two>>, <<"fire", Half>>, <<"water", Two>>, <<"grass", Two>> >> >>,
     <<"steel", << <<"normal", Half>>, <<"fighting", Two>>, <<"flying", Half>>, <<"rock", Half>>, <<"bug", Half>>, <<"steel", Half>>, <<"fire", Two>>, <<"grass", Half>>, <<"ice", Half>>, <<"fairy", Half>>, <<"poison", Zero>>, <<"ground", Two>>, <<"psychic", Half>>, <<"dragon", Half>> >> >>,
     <<"water", << <<"fire", Half>>, <<"water", Half>>, <<"grass", Two>>, <<"electric", Two>>, <<"ice", Half>>, <<"steel", Half>> >> >> >>

-----------------------------------------------------------------------------
(* Module initialisation: the top-level statements of part_003 that create *)
(* and freeze the enumeration constants, in source order.                  *)

GenNames ==
  << <<"I">>, <<"I", "I">>, <<"I", "I", "I">>, <<"I", "V">>, <<"V">>,
     <<"V", "I">>, <<"V", "I", "I">>, <<"V", "I", "I", "I">>, <<"I", "X">> >>

WeatherNames ==
  <<"NONE", "HARSH_SUN", "RAIN", "SANDSTORM", "HAIL", "SNOW", "FOG",
    "EXTREMELY_HARSH_SUN", "HEAVY_RAIN", "STRONG_WINDS">>

TypeNames ==
  <<"TYPELESS", "BUG", "DARK", "DRAGON", "ELECTRIC", "FAIRY", "FIGHTING",
    "FIRE", "FLYING", "GHOST", "GRASS", "GROUND", "ICE", "NORMAL", "POISON",
    "PSYCHIC", "ROCK", "STEEL", "WATER", "DELTA_FLYING">>

Range(f) == {f[i] : i \in DOMAIN f}

NewStmts(cls, names) ==
  [i \in 1..Len(names) |-> [kind |-> "new", cls |-> cls, prop |-> names[i]]]

FreezeStmts(cls) ==
  << [kind |-> "freeze", cls |-> cls, target |-> "prototype"],
     [kind |-> "freeze", cls |-> cls, target |-> "constructor"] >>

Program ==
  NewStmts("Gen", GenNames) \o FreezeStmts("Gen")
    \o NewStmts("Weather", WeatherNames) \o FreezeStmts("Weather")
    \o NewStmts("Type", TypeNames)
    \o <<[kind |-> "alias", cls |-> "Type", prop |-> "undefined", of |-> "TYPELESS"]>>
    \o FreezeStmts("Type")

Loaded == pc > Len(Program)

-----------------------------------------------------------------------------
(* Properties of the constructor functions and the names of instances      *)

\* cls[prop]: the id of the instance the property holds, 0 for undefined
IdOf(cls, prop) ==
  LET ps == props[cls]
  IN  IF \E i \in 1..Len(ps) : ps[i][1] = prop
      THEN ps[CHOOSE i \in 1..Len(ps) : ps[i][1] = prop][2]
      ELSE 0

IsDefined(cls, prop) == IdOf(cls, prop) # 0

\* the `for (const prop in fn)` loop of getPropertyOfInstance: the first
\* property, in insertion order, that holds the instance; notFound otherwise
FirstPropOf(cls, id, notFound) ==
  LET ps == props[cls]
      hits == {i \in 1..Len(ps) : ps[i][2] = id}
  IN  IF hits = {} THEN notFound
      ELSE ps[CHOOSE i \in hits : \A j \in hits : i <= j][1]

\* getPropertyOfInstance(instance, Gen, false)
getPropertyOfInstanceGen(id) ==
  FirstPropOf("Gen", id, <<"u", "n", "d", "e", "f", "i", "n", "e", "d">>)

\* getPropertyOfInstance(instance, Type)
getPropertyOfInstanceType(id) == "Type." \o FirstPropOf("Type", id, "undefined")

\* _name is <<>> while null and <<s>> once it caches the string s
IsNull(n) == Len(n) = 0

\* what getName() returns for a Gen / a Type instance in the current state
getNameGen(id) == IF IsNull(name[id]) THEN getPropertyOfInstanceGen(id) ELSE name[id][1]
getNameType(id) == IF IsNull(name[id]) THEN getPropertyOfInstanceType(id) ELSE name[id][1]

\* the variable name after getName() has run on the instances in gens and types
nameAfter(gens, types) ==
  [i \in DOMAIN name |->
     IF i \in gens /\ IsNull(name[i]) THEN <<getPropertyOfInstanceGen(i)>>
     ELSE IF i \in types /\ IsNull(name[i]) THEN <<getPropertyOfInstanceType(i)>>
     ELSE name[i]]

\* Type.prototype.toString and Weather.prototype.toString of an instance
TypeToString(id) == "#" \o ToString(id) \o ": " \o getNameType(id)
WeatherToString(id) == ToString(id)

\* the property key a computed key [Type.c] / [Weather.c] evaluates to
TypeKey(c) == IF IsDefined("Type", c) THEN TypeToString(IdOf("Type", c)) ELSE "undefined"
WeatherKey(c) == IF IsDefined("Weather", c) THEN WeatherToString(IdOf("Weather", c)) ELSE "undefined"

\* the constants a table source uses as outer / as inner keys
OuterConsts(rows) == {rows[r][1] : r \in 1..Len(rows)}
InnerConsts(rows) == UNION {{rows[r][2][e][1] : e \in 1..Len(rows[r][2])} : r \in 1..Len(rows)}

\* index of the last element of the sequence es whose key (under kf) is k
LastWithKey(es, kf, k) ==
  CHOOSE i \in 1..Len(es) : kf[es[i][1]] = k /\ \A j \in (i + 1)..Len(es) : kf[es[j][1]] # k

\* the object an object literal with computed keys evaluates to: a later
\* entry with the same key replaces an earlier one
BuildObject(es, kf) ==
  [k \in {kf[es[i][1]] : i \in 1..Len(es)} |-> es[LastWithKey(es, kf, k)][2]]

BuildTable(rows, okf, ikf) ==
  LET outer == BuildObject(rows, okf)
  IN  [k \in DOMAIN outer |-> BuildObject(outer[k], ikf)]

-----------------------------------------------------------------------------
(* Type.attack                                                             *)

\* mod *= eff[defender][this] when both keys are own properties
hasEntry(eff, dKey, selfKey) == dKey \in DOMAIN eff /\ selfKey \in DOMAIN eff[dKey]

\* the chart Type.attack selects: gen.match('I'), else gen.match('II-V'), else VI+
eraOf(genName) ==
  IF match(genName, <<"I">>).v = JSTrue THEN "I"
  ELSE IF match(genName, <<"I", "I", "-", "V">>).v = JSTrue THEN "II-V"
  ELSE "VI+"

\* the tables an instance holds: the literal of the source with the keys its
\* constructor computed
genIEffOf(id) == BuildTable(_genIEff, typeKeys[id], typeKeys[id])
genIItoVEffOf(id) == BuildTable(_genIItoVEff, typeKeys[id], typeKeys[id])
genVIEffOf(id) == BuildTable(_genVIEff, typeKeys[id], typeKeys[id])
powerModWeatherOf(id) == BuildTable(_powerModWeather, weatherKeys[id].type, weatherKeys[id].weather)

chartOf(selfId, era) ==
  IF era = "I" THEN genIEffOf(selfId)
  ELSE IF era = "II-V" THEN genIItoVEffOf(selfId)
  ELSE genVIEffOf(selfId)

\* eff[dKey][selfKey] when both keys are own properties, 1 otherwise
lookup(eff, dKey, selfKey) == IF hasEntry(eff, dKey, selfKey) THEN eff[dKey][selfKey] ELSE One

\* let mod = 1; mod *= first lookup; mod *= second lookup; return mod
attackOn(eff, selfKey, fKey, sKey) ==
  RMul(RMul(One, lookup(eff, fKey, selfKey)), lookup(eff, sKey, selfKey))

\* a combination of the two lookups that adds them instead of multiplying
attackAdditive(selfId, genId, fId, sId) ==
  RAdd(lookup(chartOf(selfId, eraOf(getNameGen(genId))), TypeToString(fId), TypeToString(selfId)),
       lookup(chartOf(selfId, eraOf(getNameGen(genId))), TypeToString(sId), TypeToString(selfId)))

\* this.attack(gen, fDefenderType, sDefenderType) on instance ids
attack(selfId, genId, fId, sId) ==
  attackOn(chartOf(selfId, eraOf(getNameGen(genId))),
           TypeToString(selfId), TypeToString(fId), TypeToString(sId))

\* the instances whose toString() (hence getName()) Type.attack evaluates:
\* both defenders always, this only when a defender is a key of the chart
namedOn(eff, selfId, fId, sId, fKey, sKey) ==
  {fId, sId} \cup (IF fKey \in DOMAIN eff \/ sKey \in DOMAIN eff THEN {selfId} ELSE {})

attackNamed(selfId, genId, fId, sId) ==
  namedOn(chartOf(selfId, eraOf(getNameGen(genId))), selfId, fId, sId,
          TypeToString(fId), TypeToString(sId))

-----------------------------------------------------------------------------
(* calcTypeMod: the string-keyed chart                                     *)

\* String.prototype.toLowerCase on the type names passed in
toLowerCase(str) ==
  CASE str = "Fire" -> "fire"
    [] str = "WATER" -> "water"
    [] str = "Typeless" -> "typeless"
    [] str = "Ground" -> "ground"
    [] OTHER -> str

\* plain (not computed) keys of an object literal name themselves
PlainKeys(rows) == [c \in OuterConsts(rows) \cup InnerConsts(rows) |-> c]

\* the lookup of calcTypeMod in the table eff with the lower-cased names
typeModOn(eff, a, d) ==
  IF d \notin DOMAIN eff THEN Thrown("TypeError")
  ELSE IF a \in DOMAIN eff[d] THEN Ok(eff[d][a])
  ELSE Ok(One)

\* calcTypeMod(attackerType, defenderType): effectiveness[defender] is
\* undefined for a name that is no key, and reading .hasOwnProperty of
\* undefined throws a TypeError
calcTypeMod(attackerType, defenderType) ==
  typeModOn(BuildTable(effectiveness, PlainKeys(effectiveness), PlainKeys(effectiveness)),
            toLowerCase(attackerType), toLowerCase(defenderType))

-----------------------------------------------------------------------------
(* The damage formulas                                                     *)
(*                                                                         *)
(* The arguments of a call are the fields of a record p.  The inputs below *)
(* are dyadic rationals for which every intermediate value of a formula is *)
(* held exactly by an IEEE double, so the rational arithmetic is the       *)
(* arithmetic of the program.                                              *)

\* x1 * x2 * ... * xn, left to right
RECURSIVE RProd(_)
RProd(xs) == IF Len(xs) = 1 THEN xs[1] ELSE RMul(RProd(SubSeq(xs, 1, Len(xs) - 1)), xs[Len(xs)])

\* critMod = (xs, cmp) => !ignoreCrit && critical > 1 && cmp(xs) ? 1 : xs,
\* cmpHolds being cmp(xs)
critMod(p, xs, cmpHolds) ==
  IF ~p.ignoreCrit /\ RLess(One, p.critical) /\ cmpHolds THEN One ELSE xs

\* calcGenIIIDamage(level, a, d, as, ds, power, screen, targets, weather, ff,
\*   stockpile, critical, doubleDmg, charge, hh, stab, type, random, isBurned,
\*   ignoreCrit, ignoreRandom)
calcGenIIIDamage(p) ==
  LET burn == IF p.isBurned THEN Half ELSE One
      initDamage ==
        RAdd(RProd(<< RDiv(RDiv(RProd(<< RAdd(RDiv(RMul(Two, p.level), RInt(5)), Two),
                                         p.power,
                                         RMul(p.a, critMod(p, p.as, RLess(p.as, One))) >>),
                                RMul(p.d, critMod(p, p.ds, RLess(One, p.ds)))),
                           RInt(50)),
                      burn,
                      IF ~p.ignoreCrit /\ RLess(One, p.critical) THEN One ELSE p.screen,
                      p.targets, p.weather, p.ff >>),
             Two)
  IN  RProd(<< initDamage, p.stockpile, IF p.ignoreCrit THEN One ELSE p.critical,
               p.doubleDmg, p.charge, p.hh, p.stab, p.type,
               IF p.ignoreRandom THEN One ELSE p.random >>)

\* a formula that adds the 2 before burn, screen, targets, weather and ff
calcGenIVDamageBaseFirst(p) ==
  LET sniper == p.isSniper /\ RLess(One, p.critical)
      critical == IF sniper THEN Three ELSE p.critical
      stab == IF ~sniper /\ p.isAdaptability /\ RLess(One, p.stab) THEN Two ELSE p.stab
      typeEffectiveness == RMul(p.type1, p.type2)
  IN  RProd(<< RAdd(RDiv(RDiv(RProd(<< RAdd(RDiv(RMul(Two, p.level), RInt(5)), Two),
                                       p.power, p.a >>),
                              p.d),
                         RInt(50)),
                    Two),
               p.burn, p.screen, p.targets, p.weather, p.ff,
               critical, p.item, p.first, p.random, stab, typeEffectiveness,
               p.srf, p.eb, p.tl, p.berry >>)

\* calcGenIVDamage(level, a, d, as, ds, power, burn, screen, targets, weather,
\*   ff, critical, item, first, stab, type1, type2, srf, eb, tl, berry, random,
\*   ignoreCrit, ignoreRandom, isSniper, isAdaptability): critMod is defined
\* and never called; as, ds, ignoreCrit and ignoreRandom are never read
calcGenIVDamage(p) ==
  LET sniper == p.isSniper /\ RLess(One, p.critical)
      critical == IF sniper THEN Three ELSE p.critical
      stab == IF ~sniper /\ p.isAdaptability /\ RLess(One, p.stab) THEN Two ELSE p.stab
      typeEffectiveness == RMul(p.type1, p.type2)
      damage ==
        RProd(<< RAdd(RProd(<< RDiv(RDiv(RProd(<< RAdd(RDiv(RMul(Two, p.level), RInt(5)), Two),
                                                  p.power, p.a >>),
                                         p.d),
                                    RInt(50)),
                               p.burn, p.screen, p.targets, p.weather, p.ff >>),
                      Two),
                 critical, p.item, p.first, p.random, stab, typeEffectiveness,
                 p.srf, p.eb, p.tl, p.berry >>)
  IN  damage

-----------------------------------------------------------------------------
(* The inputs the calls are drawn from                                     *)

ArabicNumerals ==
  {<<"1">>, <<"2">>, <<"3">>, <<"4">>, <<"5">>, <<"6">>, <<"7">>, <<"8">>, <<"9">>}

RomanNumerals == Range(GenNames)

\* the three well-formed shapes a, a+ and a-b over a set of numerals
RangeForms(N, E) ==
  N \cup {n \o <<"+">> : n \in N} \cup {ab[1] \o <<"-">> \o ab[2] : ab \in E \X E}

\* the numerals written at the ends of the bounded ranges a-b
ArabicEnds == {<<"1">>, <<"2">>, <<"4">>, <<"5">>, <<"9">>}
RomanEnds == {<<"I">>, <<"I", "I">>, <<"I", "V">>, <<"V">>, <<"I", "X">>}

RangeExprs ==
  RangeForms(ArabicNumerals, ArabicEnds) \cup RangeForms(RomanNumerals, RomanEnds)
    \cup {<<"2", " ", "-", " ", "4">>, <<"I", "I", " ", "-", " ", "I", "V">>}

\* defender pairs <<first, second>> passed to Type.attack
DefenderPairs ==
  { <<"TYPELESS", "TYPELESS">>, <<"WATER", "TYPELESS">>, <<"GROUND", "TYPELESS">>,
    <<"GROUND", "WATER">>, <<"BUG", "STEEL">>, <<"GHOST", "undefined">> }

\* type names passed to calcTypeMod
AttackerStrings == {"fire", "Fire", "electric", "normal", "typeless"}
DefenderStrings == {"water", "WATER", "Ground", "ghost", "steel", "typeless", "Typeless"}

\* a random factor of the range [0.85, 1]
SevenEighths == <<7, 8>>

\* the calls of calcGenIIIDamage explored
GenIIICalls ==
  [ op : {"calcGenIIIDamage"},
    level : {RInt(50)}, a : {RInt(100)}, d : {RInt(100)}, power : {RInt(50)},
    as : {Half, One}, ds : {One, Two},
    screen : {Half, One}, targets : {One}, weather : {One, OneAndHalf}, ff : {One},
    stockpile : {One}, critical : {One, Two}, doubleDmg : {One}, charge : {One},
    hh : {One}, stab : {One, OneAndHalf}, type : {One},
    random : {SevenEighths, One},
    isBurned : BOOLEAN, ignoreCrit : BOOLEAN, ignoreRandom : BOOLEAN ]

\* the calls of calcGenIVDamage explored
GenIVCalls ==
  [ op : {"calcGenIVDamage"},
    level : {RInt(50)}, a : {RInt(100)}, d : {RInt(100)}, power : {RInt(50)},
    as : {Half, One}, ds : {One, Two},
    burn : {Half, One}, screen : {Half, One}, targets : {One}, weather : {One}, ff : {One},
    critical : {One, Two}, item : {One}, first : {One}, stab : {One, OneAndHalf},
    type1 : {One}, type2 : {Half, One}, srf : {One}, eb : {One}, tl : {One}, berry : {One},
    random : {SevenEighths, One},
    ignoreCrit : BOOLEAN, ignoreRandom : BOOLEAN,
    isSniper : BOOLEAN, isAdaptability : BOOLEAN ]

-----------------------------------------------------------------------------
(* The state machine                                                       *)

Init ==
  /\ pc = 1
  /\ static = 1
  /\ props = [Gen |-> <<>>, Weather |-> <<>>, Type |-> <<>>]
  /\ frozen = {}
  /\ name = <<>>
  /\ typeKeys = <<>>
  /\ weatherKeys = <<>>
  /\ call = NoCall
  /\ ret = Ok(JSUndefined)
  /\ ncalls = 0

AtStmt(kind, cls) ==
  /\ pc <= Len(Program)
  /\ Program[pc].kind = kind
  /\ Program[pc].cls = cls

\* cls.prop = instance: ignored on a frozen constructor
Assign(cls, prop, id) ==
  IF <<cls, "constructor">> \in frozen THEN props
  ELSE [props EXCEPT ![cls] = Append(@, <<prop, id>>)]

\* Gen.X = new Gen()
NewGen ==
  /\ AtStmt("new", "Gen")
  /\ LET id == static
     IN  /\ static' = static + 1
         /\ name' = name @@ (id :> <<>>)
         /\ props' = Assign("Gen", Program[pc].prop, id)
  /\ pc' = pc + 1
  /\ UNCHANGED <<frozen, typeKeys, weatherKeys, call, ret, ncalls>>

\* Weather.X = new Weather()
NewWeather ==
  /\ AtStmt("new", "Weather")
  /\ LET id == static
         tkf == [c \in OuterConsts(_powerModWeather) |-> TypeKey(c)]
         wkf == [c \in InnerConsts(_powerModWeather) |-> WeatherKey(c)]
         named == {IdOf("Type", c) : c \in {d \in DOMAIN tkf : IsDefined("Type", d)}}
     IN  /\ static' = static + 1
         /\ weatherKeys' = weatherKeys @@ (id :> [type |-> tkf, weather |-> wkf])
         /\ name' = nameAfter({}, named)
         /\ props' = Assign("Weather", Program[pc].prop, id)
  /\ pc' = pc + 1
  /\ UNCHANGED <<frozen, typeKeys, call, ret, ncalls>>

\* Type.X = new Type()
NewType ==
  /\ AtStmt("new", "Type")
  /\ LET id == static
         used == UNION {OuterConsts(t) \cup InnerConsts(t) : t \in {_genIEff, _genIItoVEff, _genVIEff}}
         kf == [c \in used |-> TypeKey(c)]
         named == {IdOf("Type", c) : c \in {d \in used : IsDefined("Type", d)}}
     IN  /\ static' = static + 1
         /\ typeKeys' = typeKeys @@ (id :> kf)
         /\ name' = nameAfter({}, named) @@ (id :> <<>>)
         /\ props' = Assign("Type", Program[pc].prop, id)
  /\ pc' = pc + 1
  /\ UNCHANGED <<frozen, weatherKeys, call, ret, ncalls>>

\* Type.undefined = Type.TYPELESS
AliasType ==
  /\ AtStmt("alias", "Type")
  /\ props' = Assign("Type", Program[pc].prop, IdOf("Type", Program[pc].of))
  /\ pc' = pc + 1
  /\ UNCHANGED <<static, frozen, name, typeKeys, weatherKeys, call, ret, ncalls>>

\* Object.freeze(X.prototype); Object.freeze(X)
Freeze ==
  /\ pc <= Len(Program)
  /\ Program[pc].kind = "freeze"
  /\ frozen' = frozen \cup {<<Program[pc].cls, Program[pc].target>>}
  /\ pc' = pc + 1
  /\ UNCHANGED <<static, props, name, typeKeys, weatherKeys, call, ret, ncalls>>

\* a caller may call once the module is loaded and the last result is taken
CanCall == Loaded /\ call = NoCall /\ ncalls < MaxCalls

PropNames(cls) == {props[cls][i][1] : i \in 1..Len(props[cls])}

\* Gen.g.match(genRange)
GenMatch ==
  /\ CanCall
  /\ \E g \in PropNames("Gen") : \E e \in RangeExprs :
       LET id == IdOf("Gen", g)
       IN  /\ call' = [op |-> "Gen.match", gen |-> g, genRange |-> e]
           /\ ret' = match(getNameGen(id), e)
           /\ name' = nameAfter({id}, {})
  /\ ncalls' = ncalls + 1
  /\ UNCHANGED <<pc, static, props, frozen, typeKeys, weatherKeys>>

\* Type.a.attack(Gen.g, Type.f, Type.s)
TypeAttack ==
  /\ CanCall
  /\ \E a \in Range(TypeNames) : \E g \in PropNames("Gen") : \E fs \in DefenderPairs :
       LET selfId == IdOf("Type", a)
           genId == IdOf("Gen", g)
           fId == IdOf("Type", fs[1])
           sId == IdOf("Type", fs[2])
       IN  /\ call' = [op |-> "Type.attack", self |-> a, gen |-> g, f |-> fs[1], s |-> fs[2]]
           /\ ret' = Ok(attack(selfId, genId, fId, sId))
           /\ name' = nameAfter({genId}, attackNamed(selfId, genId, fId, sId))
  /\ ncalls' = ncalls + 1
  /\ UNCHANGED <<pc, static, props, frozen, typeKeys, weatherKeys>>

\* calcTypeMod(attackerType, defenderType)
CalcTypeMod ==
  /\ CanCall
  /\ \E a \in AttackerStrings : \E d \in DefenderStrings :
       /\ call' = [op |-> "calcTypeMod", attackerType |-> a, defenderType |-> d]
       /\ ret' = calcTypeMod(a, d)
  /\ ncalls' = ncalls + 1
  /\ UNCHANGED <<pc, static, props, frozen, name, typeKeys, weatherKeys>>

\* the caller takes the result; the next call can be made
Discard ==
  /\ call # NoCall
  /\ call' = NoCall
  /\ ret' = Ok(JSUndefined)
  /\ UNCHANGED <<pc, static, props, frozen, name, typeKeys, weatherKeys, ncalls>>

Next ==
  \/ NewGen
  \/ NewWeather
  \/ NewType
  \/ AliasType
  \/ Freeze
  \/ GenMatch
  \/ TypeAttack
  \/ CalcTypeMod
  \/ Discard

Spec == Init /\ [][Next]_vars

\* calcGenIIIDamage(...)
CalcGenIIIDamage ==
  /\ CanCall
  /\ \E p \in GenIIICalls :
       /\ call' = p
       /\ ret' = Ok(calcGenIIIDamage(p))
  /\ ncalls' = ncalls + 1
  /\ UNCHANGED <<pc, static, props, frozen, name, typeKeys, weatherKeys>>

\* calcGenIVDamage(...)
CalcGenIVDamage ==
  /\ CanCall
  /\ \E p \in GenIVCalls :
       /\ call' = p
       /\ ret' = Ok(calcGenIVDamage(p))
  /\ ncalls' = ncalls + 1
  /\ UNCHANGED <<pc, static, props, frozen, name, typeKeys, weatherKeys>>

\* the module is loaded, then the damage formulas are called
NextCalc ==
  \/ NewGen
  \/ NewWeather
  \/ NewType
  \/ AliasType
  \/ Freeze
  \/ CalcGenIIIDamage
  \/ CalcGenIVDamage
  \/ Discard

SpecCalc == Init /\ [][NextCalc]_vars

-----------------------------------------------------------------------------
(* The stat distributions: StatDistribution, EVs, IVs and Stages           *)
(*                                                                         *)
(* An instance is the record of its closure variables _hpVal, _atkVal,     *)
(* _defVal, _spAtkVal, _spDefVal, _speVal under the keys hp, atk, def,     *)
(* spAtk, spDef, spe; an instance of Stages also has its private fields    *)
(* #critRatio, #evasion, #accuracy under the keys critRatio, evasion,      *)
(* accuracy.  An argument object and a returned object are records.        *)

\* the six statistics in the order of the literal { hp, atk, def, spAtk, spDef, spe }
StatKeys == <<"hp", "atk", "def", "spAtk", "spDef", "spe">>

\* a destructured parameter `key = 0` or `"key": v = 0`: the property of the
\* argument, 0 when the argument has no property of that name
Param(arg, key) == IF key \in DOMAIN arg THEN arg[key] ELSE 0

\* function StatDistribution({hp = 0, atk = 0, def = 0, "sp.atk": spAtk = 0,
\* "sp.def": spDef = 0, spe = 0}): the closure variables of the new instance
StatDistribution(arg) ==
  [ hp |-> Param(arg, "hp"), atk |-> Param(arg, "atk"), def |-> Param(arg, "def"),
    spAtk |-> Param(arg, "sp.atk"), spDef |-> Param(arg, "sp.def"),
    spe |-> Param(arg, "spe") ]

\* this.getStats of StatDistribution: the six closure variables
getStats(obj) == [k \in Range(StatKeys) |-> obj[k]]

\* the methods the function StatDistribution assigns to the instance itself
OwnGetters == <<"getHpVal", "getAtkVal", "getDefVal", "getSpAtkVal", "getSpDefVal", "getSpeVal">>
OwnSetters == <<"setHpVal", "setAtkVal", "setDefVal", "setSpAtkVal", "setSpDefVal", "setSpeVal">>
OwnMethods == {"getStats"} \cup Range(OwnGetters) \cup Range(OwnSetters)

IndexIn(names, m) == CHOOSE i \in 1..Len(names) : names[i] = m

\* obj.m(newVal) for a method m of OwnMethods: a property of the instance is
\* found before a method of the prototype of its class, so these are the
\* functions that run on an instance of EVs, IVs or Stages as well.  A getter
\* returns the closure variable, a setter stores newVal as it is and returns
\* the instance, getStats returns the six closure variables.
ownMethod(obj, m, newVal) ==
  IF m = "getStats" THEN Ok(getStats(obj))
  ELSE IF m \in Range(OwnGetters) THEN Ok(RInt(obj[StatKeys[IndexIn(OwnGetters, m)]]))
  ELSE Ok([obj EXCEPT ![StatKeys[IndexIn(OwnSetters, m)]] = newVal])

\* `this` in the constructor of a class that extends another: the binding is
\* uninitialised until super() has returned, and evaluating it before that
\* throws a ReferenceError
This(superReturned) ==
  IF superReturned THEN Ok(JSUndefined) ELSE Thrown("ReferenceError")

\* EVs.#checkEV(ev, evVal)
checkEV(evVal) == IF evVal < 0 THEN 0 ELSE IF evVal > 252 THEN 252 ELSE evVal

\* evTotal of EVs.#checkEVSum(evs)
evTotal(evs) == evs.hp + evs.atk + evs.def + evs.spAtk + evs.spDef + evs.spe

\* EVs.#checkEVSum(evs)
checkEVSum(evs) ==
  IF evTotal(evs) > 510 THEN Thrown("EVSumError") ELSE Ok(JSUndefined)

\* the constructor of EVs once `this` has been evaluated: the loop over the
\* keys of stats, #checkEVSum(stats) and super(stats)
EVsChecked(stats) ==
  IF checkEVSum(stats).thrown THEN checkEVSum(stats) ELSE Ok(StatDistribution(stats))

\* new EVs(arg): the constructor evaluates this.#checkEV in the first turn of
\* its loop, and calls super(stats) in its last statement
EVs(arg) ==
  IF This(FALSE).thrown THEN This(FALSE)
  ELSE EVsChecked([k \in DOMAIN arg |-> checkEV(arg[k])])

\* IVs.#checkIV(iv, ivVal)
checkIV(ivVal) == IF ivVal < 0 THEN 0 ELSE IF ivVal > 31 THEN 31 ELSE ivVal

\* new IVs(arg): the constructor evaluates this.#checkIV in the first turn of
\* its loop, and calls super(stats) in its last statement
IVs(arg) ==
  IF This(FALSE).thrown THEN This(FALSE)
  ELSE Ok(StatDistribution([k \in DOMAIN arg |-> checkIV(arg[k])]))

\* Stages.#checkStage(stat, statStage, min = -6, max = 6); Math.floor of an
\* integer is the integer
checkStage(statStage, min, max) ==
  IF statStage < min THEN min ELSE IF statStage > max THEN max ELSE statStage

\* the stats { atk, def, spAtk, spDef, spe } the constructor of Stages checks
\* and passes to super()
StagesStats(arg) ==
  [k \in {"atk", "def", "spAtk", "spDef", "spe"} |-> checkStage(arg[k], -6, 6)]

\* the instance of Stages with the closure variables of sd and the private
\* fields set from arg
StagesOf(sd, arg) ==
  [ hp |-> sd.hp, atk |-> sd.atk, def |-> sd.def, spAtk |-> sd.spAtk,
    spDef |-> sd.spDef, spe |-> sd.spe,
    critRatio |-> checkStage(arg.critRatio, 0, 4),
    evasion |-> checkStage(arg.evasion, -6, 6),
    accuracy |-> checkStage(arg.accuracy, -6, 6) ]

\* new Stages(arg): the constructor evaluates this.#checkStage in the first
\* turn of its loop, sets #critRatio, #evasion and #accuracy, and calls
\* super(stats) in its last statement
Stages(arg) ==
  IF This(FALSE).thrown THEN This(FALSE)
  ELSE Ok(StagesOf(StatDistribution(StagesStats(arg)), arg))

\* the decimal literal hundredths/100
Dec(hundredths) == Rat(hundredths, 100)

\* const genIMults of getMultipliers
genIMults ==
  << Dec(25), Dec(28), Dec(33), Dec(40), Dec(50), Dec(66), Dec(100),
     Dec(150), Dec(200), Dec(250), Dec(300), Dec(350), Dec(400) >>

\* Stages.prototype.getStages() on an instance: it returns this.getStats(),
\* which on an instance is the function of StatDistribution
getStages(obj) == getStats(obj)

\* Stages.prototype.getMultipliers(gen) on an instance.  For Gen.I every key
\* of getStages() other than critRatio, accuracy and evasion is replaced by
\* genIMults[6 + stage].  For a later generation the loop
\* `for (genRange in critMap)` assigns to a variable that is declared nowhere,
\* which throws a ReferenceError in the strict code of a class body.
getMultipliersOn(obj, isGenI) ==
  IF isGenI.thrown THEN isGenI
  ELSE IF isGenI.v = JSTrue
  THEN Ok([k \in DOMAIN getStages(obj) \ {"critRatio", "accuracy", "evasion"} |->
             genIMults[6 + getStages(obj)[k] + 1]])
  ELSE Thrown("ReferenceError")

getMultipliers(obj, genName) == getMultipliersOn(obj, match(genName, <<"I">>))

\* the methods of Stages.prototype that no property of an instance hides
PrivateKeys == <<"critRatio", "evasion", "accuracy">>
StagesGetters == <<"getCritRatioVal", "getEvasionVal", "getAccuracyVal">>
StagesSetters == <<"setCritRatioVal", "setEvasionVal", "setAccuracyVal">>

\* Stages.prototype.setCritRatioVal, setEvasionVal, setAccuracyVal
setPrivate(obj, key, newVal) ==
  Ok([obj EXCEPT ![key] = IF key = "critRatio" THEN checkStage(newVal, 0, 4)
                          ELSE checkStage(newVal, -6, 6)])

\* obj.m(newVal) or obj.m(gen) on an instance of Stages
stagesMethod(obj, m, newVal, genName) ==
  IF m \in OwnMethods THEN ownMethod(obj, m, newVal)
  ELSE IF m = "getStages" THEN Ok(getStages(obj))
  ELSE IF m = "getMultipliers" THEN getMultipliers(obj, genName)
  ELSE IF m \in Range(StagesGetters)
  THEN Ok(RInt(obj[PrivateKeys[IndexIn(StagesGetters, m)]]))
  ELSE setPrivate(obj, PrivateKeys[IndexIn(StagesSetters, m)], newVal)

\* the expression new C(arg).m(...): the method runs on the instance when the
\* constructor has returned one
Then(made, result) == IF made.thrown THEN made ELSE result

-----------------------------------------------------------------------------
(* calcStatStageMod of src/play_pokemon.js                                 *)

\* the switch on stage of generation 1
genIStageMod ==
  << Dec(25), Dec(28), Dec(33), Dec(40), Dec(50), Dec(66), Dec(100),
     Dec(150), Dec(200), Dec(250), Dec(300), Dec(350), Dec(400) >>

\* the switch on stage of "accuracy" in generations 2 to 4, for stage -6 to 6
accStageMod(gen) ==
  << Dec(33), Dec(36), Dec(43), Dec(50), Dec(60), Dec(75), Dec(100), Dec(133),
     Dec(166), Dec(200), IF gen = 2 THEN Dec(233) ELSE Dec(250), Dec(266), Dec(300) >>

\* the switch on stage of "evasion" in generations 2 to 4, for stage -6 to 6
evaStageMod(gen) ==
  << Dec(300), Dec(266), IF gen = 2 THEN Dec(233) ELSE Dec(250), Dec(200),
     Dec(166), Dec(133), Dec(100), Dec(75), Dec(60), Dec(50), Dec(43), Dec(36), Dec(33) >>

\* Math.max(0, stage), Math.min(0, stage)
Max0(stage) == IF stage > 0 THEN stage ELSE 0
Min0(stage) == IF stage < 0 THEN stage ELSE 0

\* calcStatStageMod(stat, stage, gen) for integers stage and gen; stat is in
\* lower case
calcStatStageMod(stat, stage, gen) ==
  IF stage < -6 \/ stage > 6 THEN Thrown("Error")
  ELSE IF gen = 1 THEN Ok(genIStageMod[stage + 7])
  ELSE IF stat \in {"acc", "accuracy"}
  THEN IF gen >= 5 THEN Ok(Rat(3 + Max0(stage), 3 - Min0(stage)))
       ELSE IF gen >= 2 /\ gen <= 4 THEN Ok(accStageMod(gen)[stage + 7])
       ELSE Ok(JSUndefined)
  ELSE IF stat \in {"eva", "evsn", "evasion"}
  THEN IF gen >= 5 THEN Ok(Rat(3 - Min0(stage), 3 + Max0(stage)))
       ELSE IF gen >= 2 /\ gen <= 4 THEN Ok(evaStageMod(gen)[stage + 7])
       ELSE Ok(JSUndefined)
  ELSE Ok(Rat(2 + Max0(stage), 2 - Min0(stage)))

-----------------------------------------------------------------------------
(* The inputs of the stat distributions and of calcStatStageMod            *)

EVArgs ==
  [ hp : {-1, 0, 252, 253}, atk : {0, 6, 252}, def : {0, 252},
    spAtk : {0, 252}, spDef : {0, 252}, spe : {0, 7, 252} ]

IVArgs ==
  [ hp : {-1, 0, 31, 32}, atk : {0, 31}, def : {0, 15},
    spAtk : {0, 31}, spDef : {0, 32}, spe : {0, 31} ]

StageArgs ==
  [ critRatio : {-1, 0, 4, 5}, evasion : {-7, 0, 6}, accuracy : {-6, 0, 7},
    atk : {-7, -6, 0, 6, 7}, def : {0, 2}, spAtk : {0}, spDef : {0, -1}, spe : {0} ]

\* arguments of the method calls that follow a construction
SmallEVArgs == { a \in EVArgs : a.def = 0 /\ a.spDef = 0 /\ a.spe = 0 /\ a.atk # 6 }
SmallIVArgs == { a \in IVArgs : a.def = 0 /\ a.spDef = 0 /\ a.spe = 0 }
SmallStageArgs ==
  { a \in StageArgs : a.def = 0 /\ a.spDef = 0 /\ a.evasion = 0 /\ a.critRatio \in {0, 5}
                      /\ a.atk \in {-7, 0, 6} /\ a.accuracy \in {0, 7} }
NewVals == {-7, 0, 31, 253, 300}

StagesMethods ==
  OwnMethods \cup Range(StagesGetters) \cup Range(StagesSetters)
    \cup {"getStages", "getMultipliers"}

StatNames ==
  {"atk", "def", "spatk", "spdef", "spe", "acc", "accuracy", "eva", "evsn", "evasion"}
StageNumbers == -7..7
GenNumbers == 1..9

-----------------------------------------------------------------------------
(* The operations on the stat distributions                                *)

\* new EVs(arg)
NewEVs ==
  /\ CanCall
  /\ \E a \in EVArgs :
       /\ call' = [op |-> "new EVs", arg |-> a, method |-> "", newVal |-> 0, gen |-> <<>>]
       /\ ret' = EVs(a)
  /\ ncalls' = ncalls + 1
  /\ UNCHANGED <<pc, static, props, frozen, name, typeKeys, weatherKeys>>

\* new EVs(arg).m(newVal)
EVsMethod ==
  /\ CanCall
  /\ \E a \in SmallEVArgs : \E m \in OwnMethods : \E v \in NewVals :
       /\ call' = [op |-> "EVs method", arg |-> a, method |-> m, newVal |-> v, gen |-> <<>>]
       /\ ret' = Then(EVs(a), ownMethod(EVs(a).v, m, v))
  /\ ncalls' = ncalls + 1
  /\ UNCHANGED <<pc, static, props, frozen, name, typeKeys, weatherKeys>>

\* new IVs(arg)
NewIVs ==
  /\ CanCall
  /\ \E a \in IVArgs :
       /\ call' = [op |-> "new IVs", arg |-> a, method |-> "", newVal |-> 0, gen |-> <<>>]
       /\ ret' = IVs(a)
  /\ ncalls' = ncalls + 1
  /\ UNCHANGED <<pc, static, props, frozen, name, typeKeys, weatherKeys>>

\* new IVs(arg).m(newVal)
IVsMethod ==
  /\ CanCall
  /\ \E a \in SmallIVArgs : \E m \in OwnMethods : \E v \in NewVals :
       /\ call' = [op |-> "IVs method", arg |-> a, method |-> m, newVal |-> v, gen |-> <<>>]
       /\ ret' = Then(IVs(a), ownMethod(IVs(a).v, m, v))
  /\ ncalls' = ncalls + 1
  /\ UNCHANGED <<pc, static, props, frozen, name, typeKeys, weatherKeys>>

\* new Stages(arg)
NewStages ==
  /\ CanCall
  /\ \E a \in StageArgs :
       /\ call' = [op |-> "new Stages", arg |-> a, method |-> "", newVal |-> 0, gen |-> <<>>]
       /\ ret' = Stages(a)
  /\ ncalls' = ncalls + 1
  /\ UNCHANGED <<pc, static, props, frozen, name, typeKeys, weatherKeys>>

\* new Stages(arg).m(newVal), new Stages(arg).getMultipliers(Gen[g])
StagesMethod ==
  /\ CanCall
  /\ \E a \in SmallStageArgs : \E m \in StagesMethods : \E v \in NewVals :
     \E g \in PropNames("Gen") :
       /\ m = "getMultipliers" \/ g = <<"I">>
       /\ m \in Range(OwnSetters) \cup Range(StagesSetters) \/ v = 0
       /\ call' = [op |-> "Stages method", arg |-> a, method |-> m, newVal |-> v, gen |-> g]
       /\ ret' = Then(Stages(a), stagesMethod(Stages(a).v, m, v, getNameGen(IdOf("Gen", g))))
  /\ ncalls' = ncalls + 1
  /\ UNCHANGED <<pc, static, props, frozen, name, typeKeys, weatherKeys>>

\* calcStatStageMod(stat, stage, gen)
CalcStatStageMod ==
  /\ CanCall
  /\ \E s \in StatNames : \E k \in StageNumbers : \E g \in GenNumbers :
       /\ call' = [op |-> "calcStatStageMod", stat |-> s, stage |-> k, genNumber |-> g]
       /\ ret' = calcStatStageMod(s, k, g)
  /\ ncalls' = ncalls + 1
  /\ UNCHANGED <<pc, static, props, frozen, name, typeKeys, weatherKeys>>

\* the module is loaded, then stat distributions are made and used and the
\* stage multipliers are computed
NextStats ==
  \/ NewGen
  \/ NewWeather
  \/ NewType
  \/ AliasType
  \/ Freeze
  \/ NewEVs
  \/ EVsMethod
  \/ NewIVs
  \/ IVsMethod
  \/ NewStages
  \/ StagesMethod
  \/ CalcStatStageMod
  \/ Discard

SpecStats == Init /\ [][NextStats]_vars

-----------------------------------------------------------------------------
(* IEEE 754 double arithmetic of the stat formulas                         *)
(*                                                                         *)
(* A positive double is [sig, exp]: sig is its 53-bit significand as a     *)
(* sequence of bits, least significant first and the last bit 1, and the   *)
(* number is sig * 2^exp.  A product of a double and a positive integer is *)
(* computed exactly on the bits and rounded once to the nearest double,    *)
(* ties to even, as the operator * of JavaScript does.                     *)

\* the literal 0.01
Hundredth ==
  [ sig |-> << 1, 1, 0, 1, 1, 1, 1, 0, 0, 0, 1, 0, 1, 0, 0, 0, 0, 1, 1, 1, 0, 1, 0, 1, 1, 1,
               1, 0, 0, 0, 1, 0, 1, 0, 0, 0, 0, 1, 1, 1, 0, 1, 0, 1, 1, 1, 1, 0, 0, 0, 1, 0, 1 >>,
    exp |-> -59 ]

\* the nature modifiers 0.9, 1 and 1.1
NineTenths ==
  [ sig |-> << 1, 0, 1, 1, 0, 0, 1, 1, 0, 0, 1, 1, 0, 0, 1, 1, 0, 0, 1, 1, 0, 0, 1, 1, 0, 0,
               1, 1, 0, 0, 1, 1, 0, 0, 1, 1, 0, 0, 1, 1, 0, 0, 1, 1, 0, 0, 1, 1, 0, 0, 1, 1, 1 >>,
    exp |-> -53 ]
ElevenTenths ==
  [ sig |-> << 0, 1, 0, 1, 1, 0, 0, 1, 1, 0, 0, 1, 1, 0, 0, 1, 1, 0, 0, 1, 1, 0, 0, 1, 1, 0,
               0, 1, 1, 0, 0, 1, 1, 0, 0, 1, 1, 0, 0, 1, 1, 0, 0, 1, 1, 0, 0, 1, 1, 0, 0, 0, 1 >>,
    exp |-> -52 ]
DoubleOne == [ sig |-> [i \in 1..53 |-> IF i = 53 THEN 1 ELSE 0], exp |-> -52 ]

\* the bits of a natural number, least significant first
RECURSIVE BitsOf(_)
BitsOf(n) == IF n = 0 THEN <<>> ELSE <<n % 2>> \o BitsOf(n \div 2)

\* the natural number of a sequence of bits
RECURSIVE ValueOf(_)
ValueOf(b) == IF b = <<>> THEN 0 ELSE b[1] + 2 * ValueOf(Tail(b))

\* the bits of b * n + carry from the bit i on
RECURSIVE TimesFrom(_, _, _, _)
TimesFrom(b, n, i, carry) ==
  IF i > Len(b) THEN BitsOf(carry)
  ELSE <<(b[i] * n + carry) % 2>> \o TimesFrom(b, n, i + 1, (b[i] * n + carry) \div 2)

\* the bits of b + 1
RECURSIVE Incr(_)
Incr(b) ==
  IF b = <<>> THEN <<1>>
  ELSE IF b[1] = 0 THEN <<1>> \o Tail(b)
  ELSE <<0>> \o Incr(Tail(b))

\* the k lowest bits of b are more than half a unit of the bit k+1, or they
\* are exactly half and the bit k+1 is odd
RoundsUp(b, k) ==
  k > 0 /\ b[k] = 1 /\ ((\E i \in 1..(k - 1) : b[i] = 1) \/ b[k + 1] = 1)

\* the significand after rounding carried into a 54th bit
Renormal(sig, exp) ==
  IF Len(sig) = 54 THEN [sig |-> Tail(sig), exp |-> exp + 1]
  ELSE [sig |-> sig, exp |-> exp]

\* the double nearest to b * 2^exp, for bits b with 53 bits or more
RoundAt(b, k, exp) ==
  Renormal(IF RoundsUp(b, k) THEN Incr(SubSeq(b, k + 1, Len(b))) ELSE SubSeq(b, k + 1, Len(b)),
           exp + k)
Round(b, exp) == RoundAt(b, Len(b) - 53, exp)

\* x * n for a double x and an integer n >= 1
Times(x, n) == Round(TimesFrom(x.sig, n, 1, 0), x.exp)

\* Math.floor(x) for a double x with 0 < x < 2^31
Floor(x) ==
  IF 0 - x.exp >= 53 THEN 0 ELSE ValueOf(SubSeq(x.sig, 1 - x.exp, 53))

\* x is an integer
IsWhole(x) == \A i \in 1..(0 - x.exp) : i > 53 \/ x.sig[i] = 0

\* the value a function returns for the double x: <<k, 1>> for an integer k,
\* the exponent followed by the bits of the significand otherwise
Double(x) == IF IsWhole(x) THEN RInt(Floor(x)) ELSE <<x.exp>> \o x.sig

-----------------------------------------------------------------------------
(* calcHP and calcNonHP                                                    *)

\* 2 * base + iv + Math.floor(0.25 * ev): exact on integers
statSum(base, iv, ev) == 2 * base + iv + (ev \div 4)

\* Math.floor(0.01 * (2 * base + iv + Math.floor(0.25 * ev)) * lv)
scaled(base, iv, ev, lv) == Floor(Times(Times(Hundredth, statSum(base, iv, ev)), lv))

\* a formula that leaves the level out of the sum
calcHPNoLevel(base, iv, ev, lv) == scaled(base, iv, ev, lv) + 10

\* calcHP(base, iv, ev, lv)
calcHP(base, iv, ev, lv) == scaled(base, iv, ev, lv) + lv + 10

\* the double of a nature modifier written as the rational n
natureDouble(n) ==
  IF n = Rat(9, 10) THEN NineTenths
  ELSE IF n = Rat(11, 10) THEN ElevenTenths
  ELSE DoubleOne

\* a formula that adds what calcHP adds
calcNonHPPlusLevel(base, iv, ev, lv, nature) ==
  Double(Times(natureDouble(nature), scaled(base, iv, ev, lv) + lv + 10))

\* calcNonHP(base, iv, ev, lv, nature)
calcNonHP(base, iv, ev, lv, nature) ==
  Double(Times(natureDouble(nature), scaled(base, iv, ev, lv) + 5))

-----------------------------------------------------------------------------
(* Nature                                                                  *)

\* the static fields of Nature in the order of the class body: the name, the
\* boosted stat and the hindered stat
NatureConstants ==
  << <<"HARDY", "atk", "atk">>, <<"LONELY", "atk", "def">>, <<"BRAVE", "atk", "spe">>,
     <<"ADAMANT", "atk", "spAtk">>, <<"NAUGHTY", "atk", "spDef">>,
     <<"BOLD", "def", "atk">>, <<"DOCILE", "def", "def">>, <<"RELAXED", "def", "spe">>,
     <<"IMPISH", "def", "spAtk">>, <<"LAX", "def", "spDef">>,
     <<"TIMID", "spe", "atk">>, <<"HASTY", "spe", "def">>, <<"SERIOUS", "spe", "spe">>,
     <<"JOLLY", "spe", "spAtk">>, <<"NAIVE", "spe", "spDef">>,
     <<"MODEST", "spAtk", "atk">>, <<"MILD", "spAtk", "def">>, <<"QUIET", "spAtk", "spe">>,
     <<"BASHFUL", "spAtk", "spAtk">>, <<"RASH", "spAtk", "spDef">>,
     <<"CALM", "spDef", "atk">>, <<"GENTLE", "spDef", "def">>, <<"SASSY", "spDef", "spe">>,
     <<"CAREFUL", "spDef", "spAtk">>, <<"QUIRKY", "spDef", "spDef">> >>

\* const base = {hp: 1, ...}; base[boon] += 0.1; base[bane] -= 0.1; the
\* double (1 + 0.1) - 0.1 is 1
natureBase(boon, bane) ==
  [k \in Range(StatKeys) |->
     IF k = boon /\ k = bane THEN One
     ELSE IF k = boon THEN Rat(11, 10)
     ELSE IF k = bane THEN Rat(9, 10)
     ELSE One]

\* the instance of Nature with the closure variables of sd and the private
\* fields #boon and #bane
NatureOf(sd, boon, bane) ==
  [ hp |-> sd.hp, atk |-> sd.atk, def |-> sd.def, spAtk |-> sd.spAtk,
    spDef |-> sd.spDef, spe |-> sd.spe, boon |-> boon, bane |-> bane ]

\* new Nature(boon, bane): the constructor assigns this.#boon before it
\* calls super(base) in its last statement
Nature(boon, bane) ==
  IF This(FALSE).thrown THEN This(FALSE)
  ELSE Ok(NatureOf(StatDistribution(natureBase(boon, bane)), boon, bane))

\* the static fields of the class declaration are evaluated in order while
\* the class is declared; the declaration ends with the error of the first
\* field whose initialiser throws, and the name Nature is then left
\* uninitialised
NatureDeclared ==
  \A i \in 1..Len(NatureConstants) :
    ~Nature(NatureConstants[i][2], NatureConstants[i][3]).thrown

\* obj.m(newVal) on an instance of Nature: the methods StatDistribution
\* assigns to the instance, or getBoon and getBane of the prototype
natureMethod(obj, m, newVal) ==
  IF m = "getStats" THEN Ok(getStats(obj))
  ELSE IF m \in Range(OwnGetters) THEN Ok(obj[StatKeys[IndexIn(OwnGetters, m)]])
  ELSE IF m \in Range(OwnSetters)
  THEN Ok([obj EXCEPT ![StatKeys[IndexIn(OwnSetters, m)]] = newVal])
  ELSE IF m = "getBoon" THEN Ok(<<IndexIn(StatKeys, obj.boon)>>)
  ELSE Ok(<<IndexIn(StatKeys, obj.bane)>>)

\* the expression Nature[c].m(newVal) for the i-th static field c: reading
\* the name of a class whose declaration threw is a ReferenceError
natureRead(i, m, newVal) ==
  IF ~NatureDeclared THEN Thrown("ReferenceError")
  ELSE natureMethod(Nature(NatureConstants[i][2], NatureConstants[i][3]).v, m, newVal)

-----------------------------------------------------------------------------
(* Weather.encompass                                                       *)

\* this.encompass(attackType) of the weather whose id is wId for the
\* instance of Type whose id is tId: _powerModWeather[attackType][this] when
\* both keys are own properties, 1 otherwise; the key of attackType is its
\* toString(), which runs getName()
encompass(wId, tId) ==
  lookup(powerModWeatherOf(wId), TypeToString(tId), WeatherToString(wId))

-----------------------------------------------------------------------------
(* The inputs of the stat formulas, of Nature and of malformed ranges      *)

Bases == {1, 11, 14, 45, 100, 255}
IVNumbers == {0, 1, 31}
EVNumbers == {0, 4, 252}
Levels == {1, 50, 100}
NatureMods == {Rat(9, 10), One, Rat(11, 10)}

NatureMethods == OwnMethods \cup {"getBoon", "getBane"}
NatureVals == {0, 2}

\* strings that are no exact, bounded or open-ended range over the numerals
MalformedExprs ==
  { <<>>, <<"+">>, <<"-">>, <<"0">>, <<"0", "+">>, <<"0", "-", "3">>, <<"3", "-", "0">>,
    <<"-", "1">>, <<"a", "b", "c">>, <<"I", "-">>, <<"-", "I", "I">>, <<"2", "x">>,
    <<"1", "-", "I", "I">>, <<"I", "I", "-", "3">>, <<"1", "+", "+">>, <<"1", "-", "2", "-", "3">>, <<" ", "1">> }

-----------------------------------------------------------------------------
(* The stat formulas, Nature, Weather.encompass and malformed ranges       *)

\* calcHP(base, iv, ev, lv)
CalcHP ==
  /\ CanCall
  /\ \E b \in Bases : \E i \in IVNumbers : \E e \in EVNumbers : \E l \in Levels :
       /\ call' = [op |-> "calcHP", base |-> b, iv |-> i, ev |-> e, lv |-> l, nature |-> One]
       /\ ret' = Ok(RInt(calcHP(b, i, e, l)))
  /\ ncalls' = ncalls + 1
  /\ UNCHANGED <<pc, static, props, frozen, name, typeKeys, weatherKeys>>

\* calcNonHP(base, iv, ev, lv, nature)
CalcNonHP ==
  /\ CanCall
  /\ \E b \in Bases : \E i \in IVNumbers : \E e \in EVNumbers : \E l \in Levels :
     \E n \in NatureMods :
       /\ call' = [op |-> "calcNonHP", base |-> b, iv |-> i, ev |-> e, lv |-> l, nature |-> n]
       /\ ret' = Ok(calcNonHP(b, i, e, l, n))
  /\ ncalls' = ncalls + 1
  /\ UNCHANGED <<pc, static, props, frozen, name, typeKeys, weatherKeys>>

\* Nature[c].m(newVal)
NatureMethod ==
  /\ CanCall
  /\ \E i \in 1..Len(NatureConstants) : \E m \in NatureMethods : \E v \in NatureVals :
       /\ m \in Range(OwnSetters) \/ v = 0
       /\ call' = [op |-> "Nature method", constant |-> NatureConstants[i][1],
                   boon |-> NatureConstants[i][2], bane |-> NatureConstants[i][3],
                   method |-> m, newVal |-> v]
       /\ ret' = natureRead(i, m, v)
  /\ ncalls' = ncalls + 1
  /\ UNCHANGED <<pc, static, props, frozen, name, typeKeys, weatherKeys>>

\* Weather.w.encompass(Type.t)
WeatherEncompass ==
  /\ CanCall
  /\ \E w \in PropNames("Weather") : \E t \in Range(TypeNames) :
       /\ call' = [op |-> "Weather.encompass", weather |-> w, attackType |-> t]
       /\ ret' = Ok(encompass(IdOf("Weather", w), IdOf("Type", t)))
       /\ name' = nameAfter({}, {IdOf("Type", t)})
  /\ ncalls' = ncalls + 1
  /\ UNCHANGED <<pc, static, props, frozen, typeKeys, weatherKeys>>

\* Gen.g.match(genRange) for a malformed genRange
GenMatchMalformed ==
  /\ CanCall
  /\ \E g \in PropNames("Gen") : \E e \in MalformedExprs :
       /\ call' = [op |-> "Gen.match", gen |-> g, genRange |-> e]
       /\ ret' = match(getNameGen(IdOf("Gen", g)), e)
       /\ name' = nameAfter({IdOf("Gen", g)}, {})
  /\ ncalls' = ncalls + 1
  /\ UNCHANGED <<pc, static, props, frozen, typeKeys, weatherKeys>>

\* the module is loaded, then the stat formulas, the natures, the weathers
\* and malformed ranges are used
NextValues ==
  \/ NewGen
  \/ NewWeather
  \/ NewType
  \/ AliasType
  \/ Freeze
  \/ CalcHP
  \/ CalcNonHP
  \/ NatureMethod
  \/ WeatherEncompass
  \/ GenMatchMalformed
  \/ Discard

SpecValues == Init /\ [][NextValues]_vars

-----------------------------------------------------------------------------
(* Vocabulary of the properties                                            *)

\* the ordinal 1..9 of the generation constant named g
OrdinalOf(g) == CHOOSE i \in 1..Len(GenNames) : GenNames[i] = g

ArabicDigit == <<"1", "2", "3", "4", "5", "6", "7", "8", "9">>
ArabicOf(n) == <<ArabicDigit[n]>>
RomanOf(n) == GenNames[n]

Min(a, b) == IF a <= b THEN a ELSE b
Max(a, b) == IF a >= b THEN a ELSE b

\* the ways a bounded range from a to b is written
BoundedTexts(a, b) ==
  { ArabicOf(a) \o <<"-">> \o ArabicOf(b), RomanOf(a) \o <<"-">> \o RomanOf(b),
    ArabicOf(a) \o <<" ", "-", " ">> \o ArabicOf(b), RomanOf(a) \o <<" ", "-", " ">> \o RomanOf(b) }
OpenTexts(a) == { ArabicOf(a) \o <<"+">>, RomanOf(a) \o <<"+">> }
ExactTexts(a) == { ArabicOf(a), RomanOf(a) }

Returned(v) == ~ret.thrown /\ ret.v = v

MatchCall == call.op = "Gen.match"
AttackCall == call.op = "Type.attack"
TypeModCall == call.op = "calcTypeMod"
GenIIICall == call.op = "calcGenIIIDamage"
GenIVCall == call.op = "calcGenIVDamage"

-----------------------------------------------------------------------------
(* C1: for every generation G and every well-formed range expression,      *)
(* G.match returns true exactly when G's ordinal lies in the denoted range: *)
(* 'a-b' when min(a,b) <= G <= max(a,b), 'a+' when G >= a, 'a' when G = a,  *)
(* the same for Arabic and for Roman numerals.                             *)
C1_MatchDenotesRange ==
  MatchCall =>
    LET G == OrdinalOf(call.gen)
    IN  \A a \in 1..9 :
          /\ call.genRange \in ExactTexts(a) => Returned(Bool(G = a))
          /\ call.genRange \in OpenTexts(a) => Returned(Bool(G >= a))
          /\ \A b \in 1..9 :
               call.genRange \in BoundedTexts(a, b) =>
                 Returned(Bool(Min(a, b) <= G /\ G <= Max(a, b)))

(* C2: Type.attack consults the era-I chart exactly for Gen.I, the II-V     *)
(* chart exactly for Gen.II..Gen.V and the VI+ chart exactly for            *)
(* Gen.VI..Gen.IX.                                                          *)
C2_EraBuckets ==
  AttackCall =>
    LET G == OrdinalOf(call.gen)
        era == eraOf(getNameGen(IdOf("Gen", call.gen)))
    IN  /\ era = "I" <=> G = 1
        /\ era = "II-V" <=> G \in 2..5
        /\ era = "VI+" <=> G \in 6..9

(* C3: Fire attacking a pure Water defender in a generation VI+ yields 0.5, *)
(* and Electric attacking a pure Ground defender in generation I yields 0.  *)
C3_FireWaterElectricGround ==
  AttackCall =>
    /\ ( /\ call.self = "FIRE"
         /\ call.f = "WATER"
         /\ call.s = "TYPELESS"
         /\ OrdinalOf(call.gen) >= 6 ) => Returned(Half)
    /\ ( /\ call.self = "ELECTRIC"
         /\ call.f = "GROUND"
         /\ call.s = "TYPELESS"
         /\ OrdinalOf(call.gen) = 1 ) => Returned(Zero)

\* the rows <<outer constant, inner constant, value>> a table source writes
Relations(rows) ==
  UNION { { <<rows[r][1], rows[r][2][e][1], rows[r][2][e][2]>> : e \in 1..Len(rows[r][2]) }
          : r \in 1..Len(rows) }

\* a lookup in tbl with the keys ok and ik finds the value v
Finds(tbl, ok, ik, v) == ok \in DOMAIN tbl /\ ik \in DOMAIN tbl[ok] /\ tbl[ok][ik] = v

(* C4: initialization precedes use: when a Type constant's effectiveness    *)
(* tables and a Weather constant's power table are built, every constant    *)
(* used as a key is already defined, so no entry is keyed by an undefined   *)
(* constant, and once the module is loaded every relation written in the    *)
(* table source is found by a lookup with the corresponding constants.      *)
C4_InitBeforeUse ==
  /\ \A id \in DOMAIN typeKeys : "undefined" \notin Range(typeKeys[id])
  /\ \A id \in DOMAIN weatherKeys :
       "undefined" \notin Range(weatherKeys[id].type) \cup Range(weatherKeys[id].weather)
  /\ Loaded =>
       /\ \A rel \in Relations(_genVIEff) :
            Finds(genVIEffOf(IdOf("Type", rel[2])), TypeKey(rel[1]), TypeKey(rel[2]), rel[3])
       /\ \A rel \in Relations(_powerModWeather) :
            Finds(powerModWeatherOf(IdOf("Weather", rel[2])), TypeKey(rel[1]), WeatherKey(rel[2]), rel[3])

\* A.attack(gen, D): the second defender defaults to Type.TYPELESS
attackSingle(selfId, genId, dId) == attack(selfId, genId, dId, IdOf("Type", "TYPELESS"))

HasChartEntry(a, d) ==
  \E rel \in Relations(effectiveness) : rel[1] = toLowerCase(d) /\ rel[2] = toLowerCase(a)

(* C6: a lookup for a pair without an entry returns exactly 1 and never     *)
(* raises: Type.attack yields 1 against a Typeless/Typeless defender in     *)
(* every generation, and calcTypeMod yields 1 for every name pair without   *)
(* an entry, a defender name that is no key of its table included.          *)
C6_MissingEntryIsNeutral ==
  /\ (AttackCall /\ call.f = "TYPELESS" /\ call.s = "TYPELESS") => Returned(One)
  /\ (TypeModCall /\ ~HasChartEntry(call.attackerType, call.defenderType)) => Returned(One)

\* the damage formula the call in the current state ran, on the arguments p
DamageOf(p) == IF p.op = "calcGenIIIDamage" THEN calcGenIIIDamage(p) ELSE calcGenIVDamage(p)
DamageCall == GenIIICall \/ GenIVCall

\* the call in the current state with the argument m set to v
With(m, v) == [call EXCEPT ![m] = v]

RHalf(x) == RMul(x, Half)

\* the multipliers written before the + 2 and those written after it, the
\* ones excepted whose value also decides a branch (critical, stab of
\* calcGenIVDamage under Adaptability, a random that is ignored)
BeforeTwo == {"screen", "targets", "weather", "ff"}
AfterTwo ==
  IF GenIIICall
  THEN {"stockpile", "doubleDmg", "charge", "hh", "stab", "type"}
         \cup (IF call.ignoreRandom THEN {} ELSE {"random"})
  ELSE {"item", "first", "type1", "type2", "srf", "eb", "tl", "berry", "random"}
         \cup (IF call.isAdaptability THEN {} ELSE {"stab"})
         \cup (IF call.isSniper THEN {} ELSE {"critical"})

\* a hit that is not critical
NonCritical == call.critical = One

CriticalCase ==
  /\ RLess(call.as, One)
  /\ RLess(One, call.ds)
  /\ RLess(One, call.critical)
  /\ ~call.ignoreCrit

\* the same call made non-critical with as = 1, ds = 1 and screen = 1
NonCriticalTwin ==
  [call EXCEPT !.critical = One, !.as = One, !.ds = One, !.screen = One]

(* C8: in calcGenIIIDamage and calcGenIVDamage, a critical hit with as < 1  *)
(* and ds > 1 (ignoreCrit false) deals the damage of the same call made     *)
(* non-critical with as = 1, ds = 1 and screen = 1, times the critical      *)
(* multiplier; a non-critical hit's damage depends on as, ds and screen.    *)
C8_CriticalIgnoresStagesAndScreen ==
  DamageCall =>
    /\ (CriticalCase /\ (GenIVCall => ~call.isSniper)) =>
         ret.v = RMul(DamageOf(NonCriticalTwin), call.critical)
    /\ (NonCritical /\ RLess(call.as, One)) => DamageOf(With("as", One)) # ret.v
    /\ (NonCritical /\ RLess(One, call.ds)) => DamageOf(With("ds", One)) # ret.v
    /\ (NonCritical /\ RLess(call.screen, One)) => DamageOf(With("screen", One)) # ret.v

(* C9: in calcGenIVDamage, with isAdaptability true and stab = 1.5 the STAB *)
(* multiplier applied is 2 for every combination of the other inputs, a     *)
(* critical hit by a Sniper included; with stab = 1 it stays 1.             *)
C9_AdaptabilityStabIsTwo ==
  (GenIVCall /\ call.isAdaptability) =>
    /\ call.stab = OneAndHalf =>
         ret.v = calcGenIVDamage([call EXCEPT !.stab = Two, !.isAdaptability = FALSE])
    /\ call.stab = One =>
         ret.v = calcGenIVDamage([call EXCEPT !.isAdaptability = FALSE])

\* the values of the random factor
Randoms == {SevenEighths, One}

(* C10: with ignoreRandom = true the damage of calcGenIIIDamage and of      *)
(* calcGenIVDamage does not depend on random; with ignoreRandom = false the *)
(* random factor multiplies the final result.                               *)
C10_IgnoreRandom ==
  DamageCall =>
    /\ call.ignoreRandom => \A r \in Randoms : DamageOf(With("random", r)) = ret.v
    /\ ~call.ignoreRandom =>
         ret.v = RMul(DamageOf([call EXCEPT !.random = One, !.ignoreRandom = TRUE]), call.random)

-----------------------------------------------------------------------------
(* Vocabulary of the properties of the stat distributions                  *)

\* null: no number has the denominator 0
JSNull == <<0, 0>>

\* v brought to the nearest bound of lo..hi
Clamp(v, lo, hi) == IF v < lo THEN lo ELSE IF v > hi THEN hi ELSE v

NewEVsCall == call.op = "new EVs"
EVsMethodCall == call.op = "EVs method"
NewIVsCall == call.op = "new IVs"
IVsMethodCall == call.op = "IVs method"
NewStagesCall == call.op = "new Stages"
StagesMethodCall == call.op = "Stages method"
StageModCall == call.op = "calcStatStageMod"

\* the statistic a getter or a setter of the six statistics is about
StatOf(m) ==
  IF m \in Range(OwnGetters) THEN StatKeys[IndexIn(OwnGetters, m)]
  ELSE StatKeys[IndexIn(OwnSetters, m)]

\* the six values are legal EVs with a legal total
InEVRange(evs) == \A k \in Range(StatKeys) : evs[k] \in 0..252
ValidEVs(evs) == InEVRange(evs) /\ evTotal(evs) <= 510
ClampedEVs(arg) == [k \in DOMAIN arg |-> Clamp(arg[k], 0, 252)]

\* C11: a construction of EVs, alone or followed by a set*Val call, ends
\* either by raising the sum error or with an instance whose six stored EVs
\* are each in 0..252 and total at most 510
C11_StoredEVsInRange ==
  (NewEVsCall \/ (EVsMethodCall /\ call.method \in Range(OwnSetters)))
    => \/ ret.thrown /\ ret.err = "EVSumError"
       \/ ~ret.thrown /\ ValidEVs(ret.v)

\* C12: constructing EVs from six values in 0..252 with a total of at most
\* 510 stores exactly those values, getStats and the six getters read them
\* back, and constructing with a total of 511 raises an error
C12_RoundTrip ==
  /\ NewEVsCall /\ ValidEVs(call.arg) => Returned(call.arg)
  /\ EVsMethodCall /\ ValidEVs(call.arg) /\ call.method = "getStats"
       => Returned(call.arg)
  /\ EVsMethodCall /\ ValidEVs(call.arg) /\ call.method \in Range(OwnGetters)
       => Returned(RInt(call.arg[StatOf(call.method)]))
  /\ NewEVsCall /\ InEVRange(call.arg) /\ evTotal(call.arg) = 511 => ret.thrown

\* C13: the constructor of EVs clamps each value to 0..252 first; it raises
\* the sum error exactly when the clamped values total more than 510, and
\* stores the clamped values otherwise
C13_ClampBeforeTotal ==
  NewEVsCall =>
    IF evTotal(ClampedEVs(call.arg)) > 510
    THEN ret.thrown /\ ret.err = "EVSumError"
    ELSE Returned(ClampedEVs(call.arg))

ClampedIVs(arg) == [k \in DOMAIN arg |-> Clamp(arg[k], 0, 31)]

\* C14: a construction of IVs stores each of the six values supplied, brought
\* to the nearest bound of 0..31; getStats and the getters read these values
\* back, and a set*Val call stores its argument brought to the nearest bound
C14_IVsClampedAndKept ==
  /\ NewIVsCall => Returned(ClampedIVs(call.arg))
  /\ IVsMethodCall /\ call.method = "getStats" => Returned(ClampedIVs(call.arg))
  /\ IVsMethodCall /\ call.method \in Range(OwnGetters)
       => Returned(RInt(ClampedIVs(call.arg)[StatOf(call.method)]))
  /\ IVsMethodCall /\ call.method \in Range(OwnSetters)
       => Returned([ClampedIVs(call.arg) EXCEPT ![StatOf(call.method)] =
                      Clamp(call.newVal, 0, 31)])

\* the stages an instance of Stages holds when it was made from arg
StageKeys == {"atk", "def", "spAtk", "spDef", "spe", "accuracy", "evasion"}
HoldsStages(obj, arg) ==
  /\ \A k \in StageKeys : obj[k] = Clamp(arg[k], -6, 6)
  /\ obj.critRatio = Clamp(arg.critRatio, 0, 4)

\* the argument of a construction of Stages after the setter m has stored newVal
AfterSetter(arg, m, newVal) ==
  IF m \in Range(StagesSetters)
  THEN [arg EXCEPT ![PrivateKeys[IndexIn(StagesSetters, m)]] = newVal]
  ELSE IF m = "setHpVal" THEN arg
  ELSE [arg EXCEPT ![StatOf(m)] = newVal]

\* C15: a construction of Stages and a following setter call never raise and
\* leave every stage of atk, def, spAtk, spDef, spe, accuracy and evasion in
\* -6..6 and the critRatio stage in 0..4, an out-of-range argument being
\* stored as the nearest bound
C15_StagesClampedNeverRaise ==
  /\ NewStagesCall => ~ret.thrown /\ HoldsStages(ret.v, call.arg)
  /\ StagesMethodCall /\ call.method \in (Range(OwnSetters) \ {"setHpVal"}) \cup Range(StagesSetters)
       => ~ret.thrown /\ HoldsStages(ret.v, AfterSetter(call.arg, call.method, call.newVal))

\* C16: on an instance of Stages getHpVal returns null, setHpVal leaves the
\* stored stages as they were, and the objects getStats, getStages and
\* getMultipliers return have no hp entry
C16_NoHpStage ==
  /\ StagesMethodCall /\ call.method = "getHpVal" => Returned(JSNull)
  /\ StagesMethodCall /\ call.method = "setHpVal"
       => ~ret.thrown /\ HoldsStages(ret.v, call.arg)
  /\ StagesMethodCall /\ call.method \in {"getStats", "getStages", "getMultipliers"}
       => ~ret.thrown /\ "hp" \notin DOMAIN ret.v

\* the stats with a stage multiplier of their own, as keys of getMultipliers
\* and as arguments of calcStatStageMod
CoreStats == {"atk", "def", "spAtk", "spDef", "spe"}
CoreStatNames == {"atk", "def", "spatk", "spdef", "spe"}
AccuracyNames == {"acc", "accuracy"}
EvasionNames == {"eva", "evsn", "evasion"}

\* getMultipliers was called on a new instance of Stages for a generation lo..hi
MultipliersCall(lo, hi) ==
  StagesMethodCall /\ call.method = "getMultipliers" /\ OrdinalOf(call.gen) \in lo..hi

\* calcStatStageMod was called for a stage in -6..6 and a generation lo..hi
StageModOf(stats, lo, hi) ==
  StageModCall /\ call.stat \in stats /\ call.stage \in -6..6 /\ call.genNumber \in lo..hi

\* the stage the instance made from the arguments of the call holds for stat k
StageHeld(k) == Clamp(call.arg[k], -6, 6)

\* (2+max(0,s))/(2-min(0,s))
CoreMultiplier(s) == Rat(2 + Max(0, s), 2 - Min(0, s))

\* C17: in the generations II to IX the multiplier of a stage s in -6..6 of
\* atk, def, spAtk, spDef or spe is (2+max(0,s))/(2-min(0,s)), and it is
\* smaller than the multiplier of the stage s+1
C17_CoreStageFormula ==
  /\ StageModOf(CoreStatNames, 2, 9)
       => /\ Returned(CoreMultiplier(call.stage))
          /\ call.stage < 6
               => RLess(ret.v, calcStatStageMod(call.stat, call.stage + 1, call.genNumber).v)
  /\ MultipliersCall(2, 9)
       => /\ ~ret.thrown
          /\ \A k \in CoreStats : ret.v[k] = CoreMultiplier(StageHeld(k))

\* the table of generation I, for the stages -6 to 6
GenITable ==
  << Rat(25, 100), Rat(28, 100), Rat(33, 100), Rat(4, 10), Rat(5, 10),
     Rat(66, 100), One, OneAndHalf, Two, Rat(25, 10), Three, Rat(35, 10), RInt(4) >>

\* C18: for Gen.I getMultipliers returns an entry for exactly atk, def,
\* spAtk, spDef and spe, each the entry of the table of generation I at the
\* index stage+6; calcStatStageMod gives the same entry for generation 1
C18_GenITable ==
  /\ MultipliersCall(1, 1)
       => /\ ~ret.thrown
          /\ DOMAIN ret.v = CoreStats
          /\ \A k \in CoreStats : ret.v[k] = GenITable[StageHeld(k) + 7]
  /\ StageModOf(CoreStatNames, 1, 1) => Returned(GenITable[call.stage + 7])

\* the accuracy table of the generations II to IV, for the stages -6 to 6
AccuracyTable(g) ==
  << Rat(33, 100), Rat(36, 100), Rat(43, 100), Half, Rat(6, 10), Rat(75, 100),
     One, Rat(133, 100), Rat(166, 100), Two,
     IF g = 2 THEN Rat(233, 100) ELSE Rat(25, 10), Rat(266, 100), Three >>

\* C19: in the generations II, III and IV the accuracy multiplier of a stage
\* s in -6..6 is the entry of the accuracy table at the index s+6, and the
\* evasion multiplier of s is the accuracy multiplier of -s
C19_AccuracyEvasionTables ==
  /\ StageModOf(AccuracyNames, 2, 4)
       => Returned(AccuracyTable(call.genNumber)[call.stage + 7])
  /\ StageModOf(EvasionNames, 2, 4)
       => Returned(AccuracyTable(call.genNumber)[7 - call.stage])
  /\ MultipliersCall(2, 4)
       => /\ ~ret.thrown
          /\ ret.v.accuracy = AccuracyTable(OrdinalOf(call.gen))[StageHeld("accuracy") + 7]
          /\ ret.v.evasion = AccuracyTable(OrdinalOf(call.gen))[7 - StageHeld("evasion")]

\* (3+max(0,s))/(3-min(0,s))
AccuracyMultiplier(s) == Rat(3 + Max(0, s), 3 - Min(0, s))

\* C20: in the generations V to IX the accuracy multiplier of a stage s in
\* -6..6 is (3+max(0,s))/(3-min(0,s)) and the evasion multiplier is
\* (3-min(0,s))/(3+max(0,s))
C20_AccuracyEvasionFormulas ==
  /\ StageModOf(AccuracyNames, 5, 9) => Returned(AccuracyMultiplier(call.stage))
  /\ StageModOf(EvasionNames, 5, 9) => Returned(AccuracyMultiplier(0 - call.stage))
  /\ MultipliersCall(5, 9)
       => /\ ~ret.thrown
          /\ ret.v.accuracy = AccuracyMultiplier(StageHeld("accuracy"))
          /\ ret.v.evasion = AccuracyMultiplier(0 - StageHeld("evasion"))

-----------------------------------------------------------------------------
(* Vocabulary of the properties of the critical-hit buckets, the stat      *)
(* formulas, Nature, the weathers, malformed ranges and the era charts     *)

HPCall == call.op = "calcHP"
NonHPCall == call.op = "calcNonHP"
NatureCall == call.op = "Nature method"
WeatherCall == call.op = "Weather.encompass"

\* the probabilities of the critical stages 0..4 in the generation of ordinal g
CritBucket(g) ==
  IF g = 2 THEN <<Rat(17, 256), Rat(1, 8), Rat(1, 4), Rat(85, 256), Half>>
  ELSE IF g \in 3..5 THEN <<Rat(1, 16), Rat(1, 8), Rat(1, 4), Rat(1, 3), Half>>
  ELSE IF g = 6 THEN <<Rat(1, 16), Rat(1, 8), Half, One, One>>
  ELSE <<Rat(1, 24), Rat(1, 8), Half, One, One>>

\* C21: in the generations II to IX the critRatio getMultipliers returns is
\* the probability of the stored critical stage in the bucket of the
\* generation (II; III to V; VI; VII and later), never the stage itself
C21_CritRatioBuckets ==
  MultipliersCall(2, 9)
    => /\ ~ret.thrown
       /\ ret.v.critRatio = CritBucket(OrdinalOf(call.gen))[Clamp(call.arg.critRatio, 0, 4) + 1]

\* floor((2*base + iv + floor(ev/4)) * lv / 100) over the integers
ExactScaled(base, iv, ev, lv) == ((2 * base + iv + (ev \div 4)) * lv) \div 100

HPArgs(base, iv, ev, lv) ==
  call.base = base /\ call.iv = iv /\ call.ev = ev /\ call.lv = lv

\* C22: calcHP returns floor((2*base + iv + floor(ev/4)) * level / 100) +
\* level + 10 for every base, iv, ev and level
C22_CalcHPExact ==
  HPCall => Returned(RInt(ExactScaled(call.base, call.iv, call.ev, call.lv) + call.lv + 10))

\* C23, as the formula of calcHP gives it: calcHP(100, 31, 252, 100) is 404
C23_HPReference ==
  HPCall /\ HPArgs(100, 31, 252, 100) => Returned(RInt(404))

C23_HPReferenceCalled ==
  HPCall /\ HPArgs(100, 31, 252, 100) /\ Returned(RInt(404))

\* C23, as stated: calcHP(100, 31, 252, 100) is 330
C23_HPReference330 ==
  HPCall /\ HPArgs(100, 31, 252, 100) => Returned(RInt(330))

\* C24, as the formula of calcNonHP gives it: calcNonHP(100, 31, 252, 50, 1)
\* is 152
C24_NonHPReference ==
  NonHPCall /\ HPArgs(100, 31, 252, 50) /\ call.nature = One => Returned(RInt(152))

C24_NonHPReferenceCalled ==
  NonHPCall /\ HPArgs(100, 31, 252, 50) /\ call.nature = One /\ Returned(RInt(152))

\* C24, as stated: calcNonHP(100, 31, 252, 50, 1) is 198
C24_NonHPReference198 ==
  NonHPCall /\ HPArgs(100, 31, 252, 50) /\ call.nature = One => Returned(RInt(198))

\* 1.1 for the boosted stat, 0.9 for the hindered one, 1 for a stat that is
\* both or neither
NatureMultiplier(boon, bane, k) ==
  IF k = boon /\ k # bane THEN Rat(11, 10)
  ELSE IF k = bane /\ k # boon THEN Rat(9, 10)
  ELSE One

\* C25: getStats and the six getters of each of the 25 Nature constants read
\* back 1.1 for the boosted stat, 0.9 for the hindered stat and 1 for every
\* other stat, for hp and for the stat of a nature that boosts and hinders
\* the same stat
C25_NatureMultipliers ==
  /\ NatureCall /\ call.method = "getStats"
       => /\ ~ret.thrown
          /\ \A k \in Range(StatKeys) : ret.v[k] = NatureMultiplier(call.boon, call.bane, k)
  /\ NatureCall /\ call.method \in Range(OwnGetters)
       => Returned(NatureMultiplier(call.boon, call.bane, StatOf(call.method)))

\* C26: a set*Val call on a Nature constant leaves its six multipliers and
\* its boosted and hindered stat names as the construction made them
C26_NatureImmutable ==
  NatureCall /\ call.method \in Range(OwnSetters)
    => /\ ~ret.thrown
       /\ \A k \in Range(StatKeys) : ret.v[k] = NatureMultiplier(call.boon, call.bane, k)
       /\ ret.v.boon = call.boon
       /\ ret.v.bane = call.bane

\* the power multiplier of the moves of type t under the weather w
WeatherPower(w, t) ==
  IF t = "FIRE" /\ w \in {"HARSH_SUN", "EXTREMELY_HARSH_SUN"} THEN OneAndHalf
  ELSE IF t = "FIRE" /\ w = "RAIN" THEN Half
  ELSE IF t = "FIRE" /\ w = "HEAVY_RAIN" THEN Zero
  ELSE IF t = "WATER" /\ w = "HARSH_SUN" THEN Half
  ELSE IF t = "WATER" /\ w = "EXTREMELY_HARSH_SUN" THEN Zero
  ELSE IF t = "WATER" /\ w \in {"RAIN", "HEAVY_RAIN"} THEN OneAndHalf
  ELSE One

\* C27: for the constants of the loaded module, the weather power multiplier
\* is 1.5 for Fire under harsh or extremely harsh sun, 0.5 under rain and 0
\* under heavy rain; 0.5 for Water under harsh sun, 0 under extremely harsh
\* sun and 1.5 under rain or heavy rain; and 1 for every other pair
C27_WeatherMultipliers ==
  WeatherCall => Returned(WeatherPower(call.weather, call.attackType))

\* C28: Gen.match raises an error for every malformed range expression and
\* never answers one with a boolean
C28_MalformedRaises ==
  MatchCall /\ call.genRange \in MalformedExprs => ret.thrown

\* C29: once the constants are constructed no call changes state that
\* outlives it: no cached name, no module-level variable, no reference table
C29_CallsKeepState ==
  [][call' # NoCall => UNCHANGED <<static, props, frozen, name, typeKeys, weatherKeys>>]_vars

\* the multiplier a chart writes for attacker a against defender d, 1 where
\* it writes none
RECURSIVE WrittenIn(_, _)
WrittenIn(entries, a) ==
  IF entries = <<>> THEN One
  ELSE IF entries[Len(entries)][1] = a THEN entries[Len(entries)][2]
  ELSE WrittenIn(SubSeq(entries, 1, Len(entries) - 1), a)

RECURSIVE Written(_, _, _)
Written(chart, a, d) ==
  IF chart = <<>> THEN One
  ELSE IF chart[Len(chart)][1] = d THEN WrittenIn(chart[Len(chart)][2], a)
  ELSE Written(SubSeq(chart, 1, Len(chart) - 1), a, d)

\* the types of generation I whose matchups the later generations kept
KeptGenITypes ==
  {"NORMAL", "FIRE", "WATER", "ELECTRIC", "GRASS", "FIGHTING", "GROUND", "FLYING",
   "ROCK", "DRAGON"}

\* C30: in the loaded module the generation-I chart and the II-V chart write the same multiplier
\* for every pair of generation-I types other than Ice, Psychic, Ghost, Bug
\* and Poison; the II-V chart and the VI+ chart write the same multiplier for
\* every pair without Fairy but Ghost and Dark attacking Steel
C30_ChartsAgree ==
  Loaded =>
    /\ \A a \in KeptGenITypes : \A d \in KeptGenITypes :
         Written(_genIEff, a, d) = Written(_genIItoVEff, a, d)
    /\ \A a \in Range(TypeNames) \ {"FAIRY"} : \A d \in Range(TypeNames) \ {"FAIRY"} :
         <<a, d>> \notin {<<"GHOST", "STEEL">>, <<"DARK", "STEEL">>}
           => Written(_genIItoVEff, a, d) = Written(_genVIEff, a, d)

====
